---- MODULE Spec2Model ----
(***************************************************************************)
(* Ganja-TUI: the growth simulation (src/src/app.rs, src/src/domain) and   *)
(* the message loop that drives it (src/src/main.rs, src/src/update.rs).   *)
(*                                                                         *)
(* Number representation.  The program computes in f32; the model computes *)
(* in fixed point, every product rounded down:                             *)
(*   hours                       deci-hours      (1 = 0.1 h)               *)
(*   levels and metrics (0-100)  centi-percent   (10000 = 100 %)           *)
(*   temperature                 centi-degrees   (2400 = 24 C)             *)
(*   growth_rate, resilience     thousandths     (1000 = 1.0)              *)
(*   care quality, penalties     ten-thousandths (10000 = 1.0)             *)
(*   weight                      milligrams                                *)
(*   wall clock                  milliseconds since App::new               *)
(***************************************************************************)
EXTENDS Integers, Sequences, FiniteSets, TLC

VARIABLES
    current_plant,     \* Option<Plant>: <<>> is None, <<p>> is Some(p)
    harvest_history,   \* Vec<HarvestResult>
    last_tick,         \* DateTime<Utc>, ms
    total_harvests,    \* u32
    auto_harvest,      \* bool
    visual_mode,       \* VisualMode
    current_screen,    \* Screen
    running,           \* bool
    animation_frame,   \* usize, wrapping
    color_palette,     \* Box<dyn ColorPalette>, by the name of its type
    save_file,         \* save.json: <<>> when absent, <<json>> when written
    disk_ok,           \* whether get_save_path and fs::write succeed now
    exited,            \* run_app has left its loop
    launches,          \* how many times main has started
    PLANT_CACHE,       \* Mutex<Option<HashMap<u64, PlantStructure>>>, the map
    lock_owner,        \* the thread that holds the guard of PLANT_CACHE
    callers,           \* the threads that call get_or_generate
    generate_log,      \* what every run of generate drew and produced
    render_args,       \* the arguments of the last get_plant_ascii
    lines,             \* the char grid of that call when its painting ended
    plant_ascii        \* the Vec<String> that call returned

app_vars == <<current_plant, harvest_history, last_tick, total_harvests,
              auto_harvest, visual_mode, current_screen, running,
              animation_frame, color_palette>>

disk_vars == <<save_file, disk_ok, exited, launches>>

cache_vars == <<PLANT_CACHE, lock_owner, callers, generate_log>>

render_vars == <<render_args, lines, plant_ascii>>

vars == <<app_vars, disk_vars, cache_vars, render_vars>>

----------------------------------------------------------------------------
(* Bounds of the model *)

\* The wall clock of a run stops here (ms): 103 ticks of 648 ms, 100 days of
\* plant time.
MaxClock == 66744
\* Harvests per run.
MaxHarvests == 2
\* animation_frame wraps at this modulus (2^64 in the program).
FrameWrap == 2

\* The stress checks are applied to plants up to this day.
StressMaxDay == 13

\* The threads that call get_or_generate.
Threads == {1, 2}
\* Calls of get_or_generate one thread makes.
MaxCalls == 2
\* Draws of the generator recorded one by one in a run of generate.
MaxOutputs == 3
\* Runs of generate on record before the process is started again.
MaxGenerated == 2
\* main is started at most this many times.
MaxLaunches == 2
\* The seeds asked for (plant.id.as_u128() as u64).  4: Bushy, two trunk
\* splits of angles 2 and 0; 5: Balanced, no split; 7: Bushy, one split of
\* angle 0; 10: Tall, no split; 11: Tall, one split of angle 2.
SeedNumbers == {4, 5, 7, 10, 11}
\* The seeds the concurrent callers ask for.
CacheSeedNumbers == {4, 10}

\* Elapsed wall-clock milliseconds a Tick can observe: 23.4 h and 2340 h
\* (97.5 days) of plant time.
ElapsedSet == {648, 64800}

\* Days between two stress checks.
DayJumps == {0, 2, 6}

\* Water and nutrient levels at a stress check: both low, both high, both in
\* range, and water alone low.
StressLevels == {<<1500, 2500>>, <<9500, 9500>>, <<6000, 6000>>, <<1500, 6000>>}

\* Water and nutrient levels at a health check: the thresholds of
\* calculate_health, the value next to each, and the ends of the range.
LevelGrid ==
    {0, 500, 999, 1000, 1999, 2000, 3999, 4000, 4999, 5000, 5999, 6000,
     7000, 7001, 7500, 7501, 8000, 8001, 9500, 9501, 10000}

----------------------------------------------------------------------------
(* Small helpers *)

Min(a, b) == IF a < b THEN a ELSE b

Max(a, b) == IF a > b THEN a ELSE b

\* The element of a one-element set.
Only(S) == CHOOSE r \in S : TRUE

None == <<>>

Some(x) == <<x>>

----------------------------------------------------------------------------
(* domain/plant.rs *)

GrowthStage ==
    {"Seed", "Germination", "Seedling", "Vegetative", "PreFlower",
     "Flowering", "ReadyToHarvest"}

HealthStatus == {"Excellent", "Good", "Fair", "Poor", "Critical"}

StressCauseSet ==
    {"LowWater", "HighWater", "LowNutrients", "NutrientBurn", "WrongLightCycle"}

\* Position of a stage in the declaration order of the enum.
StageRank(s) ==
    CASE s = "Seed" -> 0
      [] s = "Germination" -> 1
      [] s = "Seedling" -> 2
      [] s = "Vegetative" -> 3
      [] s = "PreFlower" -> 4
      [] s = "Flowering" -> 5
      [] s = "ReadyToHarvest" -> 6

CareHistoryDefault ==
    [total_hours |-> 0,
     total_optimal_water_hours |-> 0,
     total_optimal_nutrient_hours |-> 0,
     water_optimal_percentage |-> 10000,
     nutrient_optimal_percentage |-> 10000,
     light_cycle_correct |-> TRUE,
     stress_events |-> <<>>]

calculate_water_percentage(ch) ==
    IF ch.total_hours = 0 THEN 10000
    ELSE (ch.total_optimal_water_hours * 10000) \div ch.total_hours

calculate_nutrient_percentage(ch) ==
    IF ch.total_hours = 0 THEN 10000
    ELSE (ch.total_optimal_nutrient_hours * 10000) \div ch.total_hours

\* u32::saturating_sub
saturating_sub(a, b) == IF a >= b THEN a - b ELSE 0

\* The last n elements of a sequence (iter().rev().take(n)).
LastN(s, n) == IF Len(s) <= n THEN s ELSE SubSeq(s, Len(s) - n + 1, Len(s))

\* Mutant of has_recent_stress: the window is 1 day instead of 5.
has_recent_stress_short(ch, cause, current_day) ==
    LET recent == LastN(ch.stress_events, 10)
    IN  \E i \in 1..Len(recent) :
            /\ recent[i].cause = cause
            /\ recent[i].day >= saturating_sub(current_day, 1)

\* Mutant of has_recent_stress: the scan takes the last 3 events, not 10.
has_recent_stress_last_three(ch, cause, current_day) ==
    LET recent == LastN(ch.stress_events, 3)
    IN  \E i \in 1..Len(recent) :
            /\ recent[i].cause = cause
            /\ recent[i].day >= saturating_sub(current_day, 5)

has_recent_stress(ch, cause, current_day) ==
    LET recent == LastN(ch.stress_events, 10)
    IN  \E i \in 1..Len(recent) :
            /\ recent[i].cause = cause
            /\ recent[i].day >= saturating_sub(current_day, 5)

\* Genetics::random draws every trait from a range; the model draws the
\* whole genome from this pool.
GeneticsPool ==
    {[yield_potential |-> 100, growth_rate |-> 1000, resilience |-> 500,
      quality_ceiling |-> 9000, strain_name |-> "Unknown Strain",
      thc_percent |-> 2000, cbd_percent |-> 50],
     [yield_potential |-> 150, growth_rate |-> 1100, resilience |-> 0,
      quality_ceiling |-> 10000, strain_name |-> "Unknown Strain",
      thc_percent |-> 2500, cbd_percent |-> 100]}

\* Uuid::new_v4() is modelled by the serial number `uuid` the caller passes:
\* the identity of every plant is fresh.
new_random(genetics, uuid, now) ==
    [id |-> uuid,
     strain_name |-> genetics.strain_name,
     stage |-> "Seedling",
     planted_at |-> now,
     days_alive |-> 1,
     total_hours_elapsed |-> 0,
     water_level |-> 6000,
     nutrient_level |-> 6000,
     light_cycle |-> "Veg18_6",
     health |-> "Excellent",
     genetics |-> genetics,
     care_history |-> CareHistoryDefault,
     co2_level |-> 8000,
     light_absorption |-> 5000,
     temperature |-> 2400,
     humidity |-> 6000,
     root_development |-> 1000,
     canopy_density |-> 500]

calculate_stage(days) ==
    IF days >= 1 /\ days <= 10 THEN "Seedling"
    ELSE IF days >= 11 /\ days <= 40 THEN "Vegetative"
    ELSE IF days >= 41 /\ days <= 48 THEN "PreFlower"
    ELSE IF days >= 49 /\ days <= 85 THEN "Flowering"
    ELSE "ReadyToHarvest"

\* Mutant of calculate_health: the critical test comes after the band tests.
calculate_health_late_critical(water, nutrients) ==
    LET water_optimal == water >= 4000 /\ water <= 8000
        nutrient_optimal == nutrients >= 5000 /\ nutrients <= 8000
        water_critical == water < 1000 \/ water > 9500
        nutrient_critical == nutrients < 2000 \/ nutrients > 9500
    IN  IF ~water_optimal /\ ~nutrient_optimal THEN "Poor"
        ELSE IF ~water_optimal \/ ~nutrient_optimal THEN "Fair"
        ELSE IF water_critical \/ nutrient_critical THEN "Critical"
        ELSE IF water >= 5000 /\ water <= 7000
                /\ nutrients >= 6000 /\ nutrients <= 7500 THEN "Excellent"
        ELSE "Good"

calculate_health(water, nutrients) ==
    LET water_optimal == water >= 4000 /\ water <= 8000
        nutrient_optimal == nutrients >= 5000 /\ nutrients <= 8000
        water_critical == water < 1000 \/ water > 9500
        nutrient_critical == nutrients < 2000 \/ nutrients > 9500
    IN  IF water_critical \/ nutrient_critical THEN "Critical"
        ELSE IF ~water_optimal /\ ~nutrient_optimal THEN "Poor"
        ELSE IF ~water_optimal \/ ~nutrient_optimal THEN "Fair"
        ELSE IF water >= 5000 /\ water <= 7000
                /\ nutrients >= 6000 /\ nutrients <= 7500 THEN "Excellent"
        ELSE "Good"

toggle_light_cycle(plant) ==
    [plant EXCEPT !.light_cycle =
        IF @ = "Veg18_6" THEN "Flower12_12" ELSE "Veg18_6"]

----------------------------------------------------------------------------
(* app.rs: App::update_time, the part that works on the plant (lines 101-250) *)

\* 1000 * sin(x / 1000) for x >= 0: the argument reduced to a half period,
\* then Bhaskara's rational approximation (error below 0.002).
sin_milli(x) ==
    LET pi == 3142
        r == x % (2 * pi)
        half == IF r < pi THEN r ELSE r - pi
        p == half * (pi - half)
        v == (16000 * (p \div 100)) \div ((5 * pi * pi - 4 * p) \div 100)
    IN  IF r < pi THEN v ELSE 0 - v

\* (elapsed_seconds / 3600.0) * 130000.0, from milliseconds to deci-hours
hours_elapsed_of(elapsed_ms) == (elapsed_ms * 13) \div 36

\* total_hours_elapsed += hours_elapsed; days_alive = (total / 24.0) as u32
AdvanceAge(plant, hours_elapsed) ==
    LET total == plant.total_hours_elapsed + hours_elapsed
    IN  [plant EXCEPT !.total_hours_elapsed = total,
                      !.days_alive = total \div 240]

\* Mutant of DrainResources: the levels are not clamped at 0.
DrainResources_unclamped(plant, hours_elapsed) ==
    LET water_drain ==
            CASE plant.stage = "Vegetative" -> 10
              [] plant.stage = "Flowering" -> 8
              [] OTHER -> 5
        nutrient_drain ==
            CASE plant.stage = "Vegetative" -> 8
              [] plant.stage = "Flowering" -> 10
              [] OTHER -> 4
    IN  [plant EXCEPT
            !.water_level = @ - water_drain * hours_elapsed,
            !.nutrient_level = @ - nutrient_drain * hours_elapsed]

\* Drain by the rates of the stage the plant had before this tick, clamp at 0.
DrainResources(plant, hours_elapsed) ==
    LET water_drain ==
            CASE plant.stage = "Vegetative" -> 10
              [] plant.stage = "Flowering" -> 8
              [] OTHER -> 5
        nutrient_drain ==
            CASE plant.stage = "Vegetative" -> 8
              [] plant.stage = "Flowering" -> 10
              [] OTHER -> 4
    IN  [plant EXCEPT
            !.water_level = Max(@ - water_drain * hours_elapsed, 0),
            !.nutrient_level = Max(@ - nutrient_drain * hours_elapsed, 0)]

\* Mutant of AutoCare: the water is topped up by 55 instead of 50.
AutoCare_overfill(plant) ==
    [plant EXCEPT
        !.water_level = IF @ < 4000 THEN Min(@ + 5500, 10000) ELSE @,
        !.nutrient_level = IF @ < 5000 THEN Min(@ + 4000, 10000) ELSE @]

\* Auto-care: top the resources up.
AutoCare(plant) ==
    [plant EXCEPT
        !.water_level = IF @ < 4000 THEN Min(@ + 5000, 10000) ELSE @,
        !.nutrient_level = IF @ < 5000 THEN Min(@ + 4000, 10000) ELSE @]

\* Environmental metrics; the stage is still the one before this tick, the
\* canopy read by co2 and light is still the one of the previous tick.
UpdateEnvironment(plant) ==
    LET days == plant.days_alive
        g == plant.genetics.growth_rate
        light_base ==
            CASE plant.stage \in {"Seed", "Germination", "Seedling"} -> 4000
              [] plant.stage = "Vegetative" -> 6000
              [] plant.stage = "PreFlower" -> 7500
              [] OTHER -> 8500
        temp_variation == (sin_milli(days * 700) * 2) \div 10
        canopy_base ==
            CASE plant.stage \in {"Seed", "Germination"} -> 500
              [] plant.stage = "Seedling" -> (1500 * g) \div 1000
              [] plant.stage = "Vegetative" -> ((4000 + days * 80) * g) \div 1000
              [] plant.stage = "PreFlower" -> ((6000 + days * 60) * g) \div 1000
              [] OTHER -> ((8000 + days * 20) * g) \div 1000
    IN  [plant EXCEPT
            !.co2_level = Min(8000 + (plant.canopy_density * 2) \div 10, 10000),
            !.light_absorption = Min(light_base + plant.canopy_density \div 10, 10000),
            !.temperature = Min(Max(2400 + temp_variation, 2000), 2800),
            !.humidity = Min(5000 + (plant.water_level * 2) \div 10, 8000),
            !.root_development = Min((days * 10000) \div 90, 10000),
            !.canopy_density = Min(canopy_base, 10000)]

\* plant.stage = Plant::calculate_stage(plant.days_alive)
UpdateStage(plant) ==
    [plant EXCEPT !.stage = calculate_stage(plant.days_alive)]

\* The switch without the test of the current cycle: it toggles at every tick
\* from day 45 on.
AutoSwitchLight_toggling(plant) ==
    IF plant.days_alive >= 45
    THEN toggle_light_cycle(plant)
    ELSE plant

\* Auto-switch to flowering at day 45 if still in the vegetative cycle.
AutoSwitchLight(plant) ==
    IF plant.days_alive >= 45 /\ plant.light_cycle = "Veg18_6"
    THEN toggle_light_cycle(plant)
    ELSE plant

\* plant.health = Plant::calculate_health(plant.water_level, plant.nutrient_level)
RecomputeHealth(plant) ==
    [plant EXCEPT
        !.health = calculate_health(plant.water_level, plant.nutrient_level)]

\* The canopy scaled by the health multiplier, which resilience mitigates.
ScaleCanopyByHealth(plant) ==
    LET res == plant.genetics.resilience
        health_multiplier ==
            CASE plant.health \in {"Excellent", "Good"} -> 1000
              [] plant.health = "Fair" -> 850 + (res * 150) \div 1000
              [] plant.health = "Poor" -> 650 + (res * 350) \div 1000
              [] OTHER -> 400 + (res * 600) \div 1000
    IN  [plant EXCEPT !.canopy_density = (@ * health_multiplier) \div 1000]

\* Mutant of TrackCare: the optimal hours are counted twice.
TrackCare_twice(plant, hours_elapsed) ==
    LET water_optimal == plant.water_level >= 4000 /\ plant.water_level <= 8000
        nutrient_optimal ==
            plant.nutrient_level >= 5000 /\ plant.nutrient_level <= 8000
    IN  [plant EXCEPT
            !.care_history.total_optimal_water_hours =
                IF water_optimal THEN @ + 2 * hours_elapsed ELSE @,
            !.care_history.total_optimal_nutrient_hours =
                IF nutrient_optimal THEN @ + 2 * hours_elapsed ELSE @,
            !.care_history.total_hours = @ + hours_elapsed]

\* Cumulative care counters.
TrackCare(plant, hours_elapsed) ==
    LET water_optimal == plant.water_level >= 4000 /\ plant.water_level <= 8000
        nutrient_optimal ==
            plant.nutrient_level >= 5000 /\ plant.nutrient_level <= 8000
    IN  [plant EXCEPT
            !.care_history.total_optimal_water_hours =
                IF water_optimal THEN @ + hours_elapsed ELSE @,
            !.care_history.total_optimal_nutrient_hours =
                IF nutrient_optimal THEN @ + hours_elapsed ELSE @,
            !.care_history.total_hours = @ + hours_elapsed]

\* One of the four stress checks: push an event unless one is recent.
RecordStress(plant, holds, cause, severity) ==
    IF holds /\ ~has_recent_stress(plant.care_history, cause, plant.days_alive)
    THEN [plant EXCEPT !.care_history.stress_events =
            Append(@, [day |-> plant.days_alive,
                       severity |-> severity,
                       cause |-> cause])]
    ELSE plant

\* The four stress checks, in the order of the code: read from the innermost
\* set outwards, each check works on the plant the one before it left.
DetectStress(plant) ==
    Only({RecordStress(p4, p4.nutrient_level > 9000, "NutrientBurn", "Severe") : p4 \in
         {RecordStress(p3, p3.nutrient_level < 3000, "LowNutrients", "Moderate") : p3 \in
         {RecordStress(p2, p2.water_level > 9000, "HighWater", "Moderate") : p2 \in
         {RecordStress(p1, p1.water_level < 2000, "LowWater", "Moderate") : p1 \in
         {plant}}}}})

\* The plant after lines 104-250 of update_time: read from the innermost set
\* outwards, each statement works on the plant the one before it left.
UpdatePlant(plant, hours_elapsed) ==
    Only({DetectStress(p10) : p10 \in
         {TrackCare(p9, hours_elapsed) : p9 \in
         {ScaleCanopyByHealth(p8) : p8 \in
         {RecomputeHealth(p7) : p7 \in
         {AutoSwitchLight(p6) : p6 \in
         {UpdateStage(p5) : p5 \in
         {UpdateEnvironment(p4) : p4 \in
         {AutoCare(p3) : p3 \in
         {DrainResources(p2, hours_elapsed) : p2 \in
         {AdvanceAge(p1, hours_elapsed) : p1 \in
         {plant}}}}}}}}}}})

----------------------------------------------------------------------------
(* domain/harvest.rs *)

from_plant(plant, now) ==
    LET base_yield == plant.genetics.yield_potential
        water_pct == calculate_water_percentage(plant.care_history)
        nutrient_pct == calculate_nutrient_percentage(plant.care_history)
        care_quality == Max((water_pct + nutrient_pct) \div 2, 7000)
        stress_count == Len(plant.care_history.stress_events)
        stress_penalty == Min(stress_count * 200, 3000)
        weight_grams ==
            (((base_yield * care_quality) \div 10) * (10000 - stress_penalty))
                \div 10000
        quality_score ==
            Min(Max((care_quality * (10000 - stress_penalty)) \div 10000, 0), 10000)
        cannabinoid_multiplier == 7000 + (quality_score * 3) \div 10
    IN  [strain_name |-> plant.strain_name,
         harvest_day |-> plant.days_alive,
         completed_at |-> now,
         weight_grams |-> weight_grams,
         quality_score |-> quality_score,
         thc_percent |-> (plant.genetics.thc_percent * cannabinoid_multiplier) \div 10000,
         cbd_percent |-> (plant.genetics.cbd_percent * cannabinoid_multiplier) \div 10000]

----------------------------------------------------------------------------
(* ui/colors.rs, ui/visual_mode.rs, message.rs *)

VisualMode == {"Normal", "Zen", "Rainbow", "Matrix"}

Screen == {"GrowingRoom", "Stats"}

visual_mode_next(m) ==
    CASE m = "Normal" -> "Zen"
      [] m = "Zen" -> "Rainbow"
      [] m = "Rainbow" -> "Matrix"
      [] m = "Matrix" -> "Normal"

create_palette(supports_truecolor, mode) ==
    IF ~supports_truecolor THEN "Basic16Palette"
    ELSE CASE mode = "Normal" -> "TrueColorPalette"
           [] mode = "Zen" -> "ZenPalette"
           [] mode = "Rainbow" -> "RainbowPalette"
           [] mode = "Matrix" -> "MatrixPalette"

supports_rgb(palette) == palette \notin {"Basic16Palette", "Color256Palette"}

----------------------------------------------------------------------------
(* ascii/art.rs: SimpleRng.  A u64 is modelled as its 8 bytes, the least   *)
(* significant first, so that the wrapping arithmetic keeps its width.     *)

\* The u64 of a number below 2^31.
U64(n) ==
    <<n % 256, (n \div 256) % 256, (n \div 65536) % 256,
      (n \div 16777216) % 256, 0, 0, 0, 0>>

\* u64::wrapping_add, byte by byte with the carry; the carry out of the eighth
\* byte is dropped.
wrapping_add(a, b) ==
    LET t1 == a[1] + b[1]
        t2 == a[2] + b[2] + (t1 \div 256)
        t3 == a[3] + b[3] + (t2 \div 256)
        t4 == a[4] + b[4] + (t3 \div 256)
        t5 == a[5] + b[5] + (t4 \div 256)
        t6 == a[6] + b[6] + (t5 \div 256)
        t7 == a[7] + b[7] + (t6 \div 256)
        t8 == a[8] + b[8] + (t7 \div 256)
    IN  <<t1 % 256, t2 % 256, t3 % 256, t4 % 256,
          t5 % 256, t6 % 256, t7 % 256, t8 % 256>>

\* The sum of the byte products that land in byte k of a product.
ColumnSum(a, b, k) ==
    LET P(i) == IF i <= k THEN a[i] * b[k + 1 - i] ELSE 0
    IN  P(1) + P(2) + P(3) + P(4) + P(5) + P(6) + P(7) + P(8)

\* u64::wrapping_mul: the product modulo 2^64.
wrapping_mul(a, b) ==
    LET t1 == ColumnSum(a, b, 1)
        t2 == ColumnSum(a, b, 2) + (t1 \div 256)
        t3 == ColumnSum(a, b, 3) + (t2 \div 256)
        t4 == ColumnSum(a, b, 4) + (t3 \div 256)
        t5 == ColumnSum(a, b, 5) + (t4 \div 256)
        t6 == ColumnSum(a, b, 6) + (t5 \div 256)
        t7 == ColumnSum(a, b, 7) + (t6 \div 256)
        t8 == ColumnSum(a, b, 8) + (t7 \div 256)
    IN  <<t1 % 256, t2 % 256, t3 % 256, t4 % 256,
          t5 % 256, t6 % 256, t7 % 256, t8 % 256>>

\* SimpleRng::new
SimpleRng_new(seed) == [state |-> wrapping_add(seed, U64(1))]

\* Mutant of SimpleRng_next: the increment of the generator is left out.
SimpleRng_next_no_increment(rng) ==
    LET state == wrapping_mul(rng.state, U64(1103515245))
    IN  [rng |-> [state |-> state],
         value |-> (state[3] + 256 * state[4]) % 32768]

\* SimpleRng::next: the generator after the call and the value returned,
\* (state / 65536) % 32768, which is bits 16..30 of the state.
SimpleRng_next(rng) ==
    Only({[rng |-> [state |-> state],
           value |-> (state[3] + 256 * state[4]) % 32768] :
          state \in {wrapping_add(product, U64(12345)) :
                        product \in {wrapping_mul(rng.state,
                                                  U64(1103515245))}}})


----------------------------------------------------------------------------
(* ascii/art.rs: PlantStructure::generate.  Densities are in tenths, the   *)
(* trunk growth rate in hundredths of a level per day; an Option<usize> is *)
(* <<>> or <<index>>, the index counted from 0 as in the program.          *)

Phenotype == {"Tall", "Bushy", "Balanced"}

\* The locals of one pass of a branch loop: the generator, the value of its
\* last draw, and the fields of the Branch the pass pushes as far as the
\* pass has set them.
BranchLocals(rng) ==
    [rng |-> rng,
     value |-> 0,
     branch |-> [level |-> 0,
                 direction |-> 0,
                 growth_start_day |-> 0,
                 max_length |-> 0,
                 thickness |-> 1,
                 is_secondary |-> FALSE,
                 parent_index |-> <<>>,
                 curve |-> 0,
                 can_bifurcate |-> FALSE,
                 bifurcation_day |-> 999]]

\* rng.next() in a function whose locals are `st`: the generator advanced and
\* the value drawn.
Draw(st) ==
    Only({Only({[locals EXCEPT !.rng = n.rng, !.value = n.value] :
                n \in {SimpleRng_next(locals.rng)}}) :
          locals \in {st}})

\* let level = match phenotype { .. }, on the value drawn
PrimaryLevel(st, phenotype, max_height) ==
    [st EXCEPT !.branch.level =
         IF phenotype = "Tall"
         THEN 1 + (st.value % (max_height - 1))
         ELSE 2 + (st.value % Max(max_height - 2, 1))]

\* let growth_start_day = level_day + (rng.next() % 3), days_per_level in
\* tenths
PrimaryStartDay(st, phenotype, max_height) ==
    LET days_per_level == CASE phenotype = "Tall" -> 12
                            [] phenotype = "Bushy" -> 8
                            [] phenotype = "Balanced" -> 10
        level_day ==
            4 + ((max_height - st.branch.level) * days_per_level) \div 10
    IN  [st EXCEPT !.branch.growth_start_day = level_day + (st.value % 3)]

\* let direction = if rng.next() % 2 == 0 { -1 } else { 1 }
PrimaryDirection(st) ==
    [st EXCEPT !.branch.direction = IF (st.value % 2) = 0 THEN -1 ELSE 1]

\* let max_length = match phenotype { .. }
PrimaryLength(st, phenotype) ==
    [st EXCEPT !.branch.max_length =
         IF phenotype = "Bushy"
         THEN 8 + (st.value % 6)
         ELSE 6 + (st.value % 8)]

\* let thickness = match phenotype { .. }: a Tall plant draws nothing.
PrimaryThickness(st, phenotype) ==
    IF phenotype = "Tall"
    THEN [st EXCEPT !.branch.thickness = 1]
    ELSE Only({[drawn EXCEPT !.branch.thickness =
                    IF phenotype = "Bushy"
                    THEN (IF (drawn.value % 2) = 0 THEN 2 ELSE 1)
                    ELSE (IF (drawn.value % 3) = 0 THEN 2 ELSE 1)] :
               drawn \in {Draw(st)}})

\* let curve = if rng.next() % chance == 0 { if rng.next() % 2 == 0 { -1 }
\* else { 1 } } else { 0 }, `st` holding the first draw
BranchCurve(st, chance) ==
    IF (st.value % chance) = 0
    THEN Only({[drawn EXCEPT !.branch.curve =
                    IF (drawn.value % 2) = 0 THEN -1 ELSE 1] :
               drawn \in {Draw(st)}})
    ELSE [st EXCEPT !.branch.curve = 0]

\* let can_bifurcate = rng.next() % chance == 0 and let bifurcation_day,
\* `st` holding the first draw
BranchBifurcation(st, chance, soonest) ==
    IF (st.value % chance) = 0
    THEN Only({[drawn EXCEPT
                    !.branch.can_bifurcate = TRUE,
                    !.branch.bifurcation_day =
                        drawn.branch.growth_start_day + soonest
                            + (drawn.value % 8)] :
               drawn \in {Draw(st)}})
    ELSE [st EXCEPT !.branch.can_bifurcate = FALSE,
                    !.branch.bifurcation_day = 999]

\* The body of the loop over the primary branches: the generator after it and
\* the branch pushed.
PrimaryBranch(rng0, phenotype, max_height) ==
    BranchBifurcation(Draw(
        BranchCurve(Draw(
            PrimaryThickness(
                PrimaryLength(Draw(
                    PrimaryDirection(Draw(
                        PrimaryStartDay(Draw(
                            PrimaryLevel(Draw(BranchLocals(rng0)),
                                         phenotype, max_height)),
                            phenotype, max_height)))),
                    phenotype),
                phenotype)),
            3)),
        3, 8)

\* for _i in 0..num_primary: the generator after `count` passes and the
\* branches they push, in order.  The passes are evaluated as two halves, the
\* second from the generator the first leaves.
RECURSIVE PrimaryBranches(_, _, _, _)
PrimaryBranches(rng, count, phenotype, max_height) ==
    IF count = 0 THEN [rng |-> rng, branches |-> <<>>]
    ELSE IF count = 1
    THEN Only({[rng |-> b.rng, branches |-> <<b.branch>>] :
               b \in {PrimaryBranch(rng, phenotype, max_height)}})
    ELSE Only({Only({[rng |-> second.rng,
                      branches |-> first.branches \o second.branches] :
                     second \in {PrimaryBranches(first.rng,
                                                 count - (count \div 2),
                                                 phenotype, max_height)}}) :
               first \in {PrimaryBranches(rng, count \div 2, phenotype,
                                          max_height)}})

\* let parent_idx = (rng.next() as usize) % primary_count
SecondaryParent(st, primary_count) ==
    [st EXCEPT !.branch.parent_index = <<st.value % primary_count>>,
               !.branch.is_secondary = TRUE,
               !.branch.thickness = 1]

\* let parent = &branches[parent_idx]
ParentOf(st, branches) == branches[st.branch.parent_index[1] + 1]

\* let growth_start_day = parent.growth_start_day + 5 + (rng.next() % 5)
SecondaryStartDay(st, branches) ==
    [st EXCEPT !.branch.growth_start_day =
         ParentOf(st, branches).growth_start_day + 5 + (st.value % 5)]

\* let level_offset = (rng.next() % 3) - 1 and let level
SecondaryLevel(st, branches, max_height) ==
    [st EXCEPT !.branch.level =
         Min(Max(ParentOf(st, branches).level + ((st.value % 3) - 1), 1),
             max_height - 1)]

\* let direction = if rng.next() % 3 == 0 { parent.direction } else { .. }
SecondaryDirection(st, branches) ==
    [st EXCEPT !.branch.direction =
         IF (st.value % 3) = 0
         THEN ParentOf(st, branches).direction
         ELSE -ParentOf(st, branches).direction]

\* let max_length = 4 + (rng.next() % 6)
SecondaryLength(st) ==
    [st EXCEPT !.branch.max_length = 4 + (st.value % 6)]

\* The body of the loop over the secondary branches.
SecondaryBranch(rng0, branches, primary_count, max_height) ==
    BranchBifurcation(Draw(
        BranchCurve(Draw(
            SecondaryLength(Draw(
                SecondaryDirection(Draw(
                    SecondaryLevel(Draw(
                        SecondaryStartDay(Draw(
                            SecondaryParent(Draw(BranchLocals(rng0)),
                                            primary_count)),
                            branches)),
                        branches, max_height)),
                    branches)))),
            2)),
        5, 10)

\* for _ in 0..num_secondary, evaluated in the same way; `primaries` is the
\* vector as the loop over the primary branches left it (a parent is always
\* one of them).
RECURSIVE SecondaryBranches(_, _, _, _)
SecondaryBranches(rng, count, primaries, max_height) ==
    IF count = 0 THEN [rng |-> rng, branches |-> <<>>]
    ELSE IF count = 1
    THEN Only({[rng |-> b.rng, branches |-> <<b.branch>>] :
               b \in {SecondaryBranch(rng, primaries, Len(primaries),
                                      max_height)}})
    ELSE Only({Only({[rng |-> second.rng,
                      branches |-> first.branches \o second.branches] :
                     second \in {SecondaryBranches(first.rng,
                                                   count - (count \div 2),
                                                   primaries, max_height)}}) :
               first \in {SecondaryBranches(rng, count \div 2, primaries,
                                            max_height)}})

\* The body of the loop over the trunk splits: the generator after it and
\* the split pushed.
TrunkSplit(rng) ==
    Only({Only({Only({[rng |-> n3.rng,
                       split |-> [split_day |-> 20 + (n1.value % 30),
                                  split_level |-> 4 + (n2.value % 4),
                                  angle |-> (n3.value % 5) - 2]] :
                      n3 \in {SimpleRng_next(n2.rng)}}) :
                n2 \in {SimpleRng_next(n1.rng)}}) :
          n1 \in {SimpleRng_next(rng)}})

\* Mutant of TrunkSplits: the loop runs over 0..=num_splits.
RECURSIVE TrunkSplits_one_more(_, _, _)
TrunkSplits_one_more(rng, trunk_splits, remaining) ==
    IF remaining < 0 THEN trunk_splits
    ELSE Only({TrunkSplits_one_more(pass.rng,
                                    Append(trunk_splits, pass.split),
                                    remaining - 1) :
               pass \in {TrunkSplit(rng)}})

\* for _ in 0..num_splits
RECURSIVE TrunkSplits(_, _, _)
TrunkSplits(rng, trunk_splits, remaining) ==
    IF remaining = 0 THEN trunk_splits
    ELSE Only({TrunkSplits(pass.rng, Append(trunk_splits, pass.split),
                           remaining - 1) :
               pass \in {TrunkSplit(rng)}})

\* The locals of generate after let mut rng = SimpleRng::new(seed).
GenerateLocals(seed) ==
    [rng |-> SimpleRng_new(seed),
     value |-> 0,
     seed |-> seed,
     phenotype |-> "Tall",
     max_height |-> 0,
     num_primary |-> 0,
     branches |-> <<>>,
     num_splits |-> 0,
     trunk_splits |-> <<>>]

\* let phenotype = match rng.next() % 3 { .. }
ChoosePhenotype(st) ==
    [st EXCEPT !.phenotype = CASE (st.value % 3) = 0 -> "Tall"
                               [] (st.value % 3) = 1 -> "Bushy"
                               [] OTHER -> "Balanced"]

\* max_height of let (branch_density, foliage_density, max_height,
\* growth_rate) = match phenotype { .. }
ChooseHeight(st) ==
    [st EXCEPT !.max_height =
         CASE st.phenotype = "Tall" -> 20 + (st.value % 5)
           [] st.phenotype = "Bushy" -> 12 + (st.value % 5)
           [] st.phenotype = "Balanced" -> 16 + (st.value % 5)]

\* let num_primary = match phenotype { .. }
CountPrimary(st) ==
    [st EXCEPT !.num_primary =
         CASE st.phenotype = "Tall" -> 15 + (st.value % 10)
           [] st.phenotype = "Bushy" -> 25 + (st.value % 15)
           [] st.phenotype = "Balanced" -> 20 + (st.value % 12)]

\* The loop over the primary branches.
PushPrimary(st) ==
    Only({[st EXCEPT !.rng = pushed.rng, !.branches = pushed.branches] :
          pushed \in {PrimaryBranches(st.rng, st.num_primary, st.phenotype,
                                      st.max_height)}})

\* let num_secondary = match phenotype { .. }
NumSecondary(st) ==
    CASE st.phenotype = "Tall" -> (st.num_primary * 5) \div 10
      [] st.phenotype = "Bushy" -> (st.num_primary * 8) \div 10
      [] st.phenotype = "Balanced" -> (st.num_primary * 6) \div 10

\* The loop over the secondary branches.
PushSecondary(st) ==
    Only({[st EXCEPT !.rng = pushed.rng,
                     !.branches = st.branches \o pushed.branches] :
          pushed \in {SecondaryBranches(st.rng, NumSecondary(st),
                                        st.branches, st.max_height)}})

\* let num_splits = match phenotype { .. }
CountSplits(st) ==
    [st EXCEPT !.num_splits =
         CASE st.phenotype = "Tall" -> IF (st.value % 3) = 0 THEN 1 ELSE 0
           [] st.phenotype = "Bushy" -> IF (st.value % 2) = 0 THEN 1 ELSE 2
           [] st.phenotype = "Balanced" ->
                  IF (st.value % 4) = 0 THEN 1 ELSE 0]

\* The loop over the trunk splits.
PushSplits(st) ==
    [st EXCEPT !.trunk_splits = TrunkSplits(st.rng, <<>>, st.num_splits)]

\* Self { .. }
PlantStructure(st) ==
    [branches |-> st.branches,
     seed |-> st.seed,
     phenotype |-> st.phenotype,
     branch_density |-> CASE st.phenotype = "Tall" -> 6
                          [] st.phenotype = "Bushy" -> 10
                          [] st.phenotype = "Balanced" -> 8,
     foliage_density |-> CASE st.phenotype = "Tall" -> 4
                           [] st.phenotype = "Bushy" -> 9
                           [] st.phenotype = "Balanced" -> 7,
     trunk_splits |-> st.trunk_splits,
     max_height |-> st.max_height,
     growth_rate |-> CASE st.phenotype = "Tall" -> 25
                       [] st.phenotype = "Bushy" -> 22
                       [] st.phenotype = "Balanced" -> 23]

\* PlantStructure::generate
generate(seed) ==
    PlantStructure(
        PushSplits(CountSplits(Draw(
            PushSecondary(
                PushPrimary(CountPrimary(Draw(
                    ChooseHeight(Draw(
                        ChoosePhenotype(Draw(GenerateLocals(seed)))))))))))))


----------------------------------------------------------------------------
(* ascii/art.rs: PLANT_CACHE and PlantStructure::get_or_generate.  The     *)
(* HashMap is a function from the seeds present to their structures.  The  *)
(* call is taken apart into its steps: lock(), the lookup, generate() (the *)
(* generator created, its first draws, the rest), insert() and the return  *)
(* that drops the guard.  The insertion writes memory in two steps;        *)
(* between them the entry is there but not yet whole.                      *)

NoThread == 0

\* An entry that insert() has begun to write.
PartialEntry == [partial |-> TRUE]

HashMap_insert(map, key, value) ==
    [k \in DOMAIN map \cup {key} |-> IF k = key THEN value ELSE map[k]]

\* A caller that is not inside get_or_generate; `returned` lists what its
\* calls returned, each with the seed asked for.
Caller(returned) ==
    [pc |-> "idle", seed |-> <<>>, rng |-> <<>>, outputs |-> <<>>,
     structure |-> <<>>, returned |-> returned]

\* Mutant of MutexFree: lock() never waits.
MutexFree_always == TRUE

\* PLANT_CACHE.lock() returns only when no other thread holds the guard.
MutexFree == lock_owner = NoThread

\* The seeds the callers ask for.
CacheSeeds == {U64(n) : n \in CacheSeedNumbers}

\* The seeds of the model.
AllSeeds == {U64(n) : n \in SeedNumbers}

\* generate on the seeds of the model, computed once: generate reads nothing
\* but its argument.
Generated == {<<n, generate(U64(n))>> : n \in SeedNumbers}

\* generate(seed), looked up in Generated.
StructureOf(seed) == Only({g[2] : g \in {h \in Generated : U64(h[1]) = seed}})

\* A thread enters get_or_generate(seed).
CallGetOrGenerate(t, seed) ==
    /\ callers[t].pc = "idle"
    /\ Len(callers[t].returned) < MaxCalls
    /\ callers' = [callers EXCEPT ![t].pc = "lock", ![t].seed = seed]
    /\ UNCHANGED <<PLANT_CACHE, lock_owner, generate_log>>
    /\ UNCHANGED <<app_vars, disk_vars, render_vars>>

\* let mut cache = PLANT_CACHE.lock().unwrap();
Lock(t) ==
    /\ callers[t].pc = "lock"
    /\ MutexFree
    /\ lock_owner' = t
    /\ callers' = [callers EXCEPT ![t].pc = "get"]
    /\ UNCHANGED <<PLANT_CACHE, generate_log>>
    /\ UNCHANGED <<app_vars, disk_vars, render_vars>>

\* if let Some(structure) = cache.get(&seed) { return structure.clone(); }
\* The clone is what the map holds at this moment.
Lookup(t) ==
    /\ callers[t].pc = "get"
    /\ IF callers[t].seed \in DOMAIN PLANT_CACHE
       THEN callers' = [callers EXCEPT
                ![t].pc = "return",
                ![t].structure = PLANT_CACHE[callers[t].seed]]
       ELSE callers' = [callers EXCEPT ![t].pc = "generate"]
    /\ UNCHANGED <<PLANT_CACHE, lock_owner, generate_log>>
    /\ UNCHANGED <<app_vars, disk_vars, render_vars>>

\* Self::generate(seed) begins: let mut rng = SimpleRng::new(seed);
GenerateBegin(t) ==
    /\ callers[t].pc = "generate"
    /\ callers' = [callers EXCEPT ![t].pc = "draw",
                                  ![t].rng = SimpleRng_new(callers[t].seed),
                                  ![t].outputs = <<>>]
    /\ UNCHANGED <<PLANT_CACHE, lock_owner, generate_log>>
    /\ UNCHANGED <<app_vars, disk_vars, render_vars>>

\* The first calls of rng.next() in generate: the draws of the phenotype, of
\* max_height and of num_primary.
GenerateDraw(t) ==
    /\ callers[t].pc = "draw"
    /\ Len(callers[t].outputs) < MaxOutputs
    /\ \E n \in {SimpleRng_next(callers[t].rng)} :
           callers' = [callers EXCEPT
               ![t].rng = n.rng,
               ![t].outputs = Append(callers[t].outputs, n.value)]
    /\ UNCHANGED <<PLANT_CACHE, lock_owner, generate_log>>
    /\ UNCHANGED <<app_vars, disk_vars, render_vars>>

\* generate runs to its end: let structure = Self::generate(seed);
GenerateEnd(t) ==
    /\ callers[t].pc = "draw"
    /\ Len(callers[t].outputs) = MaxOutputs
    /\ \E structure \in {StructureOf(callers[t].seed)} :
           /\ callers' = [callers EXCEPT ![t].pc = "insert",
                                         ![t].structure = structure]
           /\ generate_log' = Append(generate_log,
                                     [seed |-> callers[t].seed,
                                      outputs |-> callers[t].outputs,
                                      structure |-> structure])
    /\ UNCHANGED <<PLANT_CACHE, lock_owner>>
    /\ UNCHANGED <<app_vars, disk_vars, render_vars>>

\* cache.insert(seed, structure.clone()), the first write
InsertBegin(t) ==
    /\ callers[t].pc = "insert"
    /\ PLANT_CACHE' = HashMap_insert(PLANT_CACHE, callers[t].seed,
                                     PartialEntry)
    /\ callers' = [callers EXCEPT ![t].pc = "inserting"]
    /\ UNCHANGED <<lock_owner, generate_log>>
    /\ UNCHANGED <<app_vars, disk_vars, render_vars>>

\* cache.insert(seed, structure.clone()), the entry complete
InsertEnd(t) ==
    /\ callers[t].pc = "inserting"
    /\ PLANT_CACHE' = HashMap_insert(PLANT_CACHE, callers[t].seed,
                                     callers[t].structure)
    /\ callers' = [callers EXCEPT ![t].pc = "return"]
    /\ UNCHANGED <<lock_owner, generate_log>>
    /\ UNCHANGED <<app_vars, disk_vars, render_vars>>

\* Mutant of Return: the guard is not dropped when the call returns.
Return_keeps_guard(t) ==
    /\ callers[t].pc = "return"
    /\ callers' = [callers EXCEPT
           ![t] = Caller(Append(callers[t].returned,
                                [seed |-> callers[t].seed,
                                 structure |-> callers[t].structure]))]
    /\ UNCHANGED <<PLANT_CACHE, lock_owner, generate_log>>
    /\ UNCHANGED <<app_vars, disk_vars, render_vars>>

\* The structure is returned and the guard goes out of scope.
Return(t) ==
    /\ callers[t].pc = "return"
    /\ callers' = [callers EXCEPT
           ![t] = Caller(Append(callers[t].returned,
                                [seed |-> callers[t].seed,
                                 structure |-> callers[t].structure]))]
    /\ lock_owner' = IF lock_owner = t THEN NoThread ELSE lock_owner
    /\ UNCHANGED <<PLANT_CACHE, generate_log>>
    /\ UNCHANGED <<app_vars, disk_vars, render_vars>>

\* The process ends, no thread being inside a call, and a new one starts
\* with an empty cache.  What was generated and returned before stays on
\* record.
Restart ==
    /\ PLANT_CACHE # <<>>
    /\ \A t \in Threads : callers[t].pc = "idle"
    /\ Len(generate_log) < MaxGenerated
    /\ PLANT_CACHE' = <<>>
    /\ UNCHANGED <<lock_owner, callers, generate_log>>
    /\ UNCHANGED <<app_vars, disk_vars, render_vars>>

CacheNext ==
    \/ \E t \in Threads, seed \in CacheSeeds : CallGetOrGenerate(t, seed)
    \/ \E t \in Threads : Lock(t)
    \/ \E t \in Threads : Lookup(t)
    \/ \E t \in Threads : GenerateBegin(t)
    \/ \E t \in Threads : GenerateDraw(t)
    \/ \E t \in Threads : GenerateEnd(t)
    \/ \E t \in Threads : InsertBegin(t)
    \/ \E t \in Threads : InsertEnd(t)
    \/ \E t \in Threads : Return(t)
    \/ Restart

\* The render thread of the program, the only caller it has.
RenderThread == 1

GenNext ==
    \/ \E seed \in AllSeeds : CallGetOrGenerate(RenderThread, seed)
    \/ Lock(RenderThread)
    \/ Lookup(RenderThread)
    \/ GenerateBegin(RenderThread)
    \/ GenerateDraw(RenderThread)
    \/ GenerateEnd(RenderThread)
    \/ InsertBegin(RenderThread)
    \/ InsertEnd(RenderThread)
    \/ Return(RenderThread)
    \/ Restart

----------------------------------------------------------------------------
(* ascii/art.rs: the renderer.  A char is a string of one character; the   *)
(* box-drawing bar, the one char of the program outside ASCII, is written  *)
(* by its code point.  lines[y][x] of the program is lines[y + 1][x + 1].  *)
(* A write outside the grid panics; the grid of a panicked render is Panic. *)

Blank == " "

Backslash == "\\"

\* The char U+2551: three bytes in UTF-8, every other char of the renderer
\* one.
DoubleBar == "U+2551"

len_utf8(ch) == IF ch = DoubleBar THEN 3 ELSE 1

Panic == <<>>

\* A function over 1..n as the sequence of its values.
Vec(f) == f \o <<>>

\* vec![vec![' '; 70]; 28]
BlankLines == Vec([y \in 1..28 |-> Vec([x \in 1..70 |-> Blank])])

\* lines[y][x] = ch
IndexSet(grid, y, x, ch) ==
    IF grid = Panic \/ y \notin 0..27 \/ x \notin 0..69
    THEN Panic
    ELSE [grid EXCEPT ![y + 1][x + 1] = ch]

\* Mutant of IndexSetIfBlank: the char is written whatever the cell holds.
IndexSetIfBlank_always(grid, y, x, ch) ==
    IF grid = Panic \/ y \notin 0..27 \/ x \notin 0..69
    THEN Panic
    ELSE [grid EXCEPT ![y + 1][x + 1] = ch]

\* if lines[y][x] == ' ' { lines[y][x] = ch; }
IndexSetIfBlank(grid, y, x, ch) ==
    IF grid = Panic \/ y \notin 0..27 \/ x \notin 0..69
    THEN Panic
    ELSE IF grid[y + 1][x + 1] = Blank
         THEN [grid EXCEPT ![y + 1][x + 1] = ch]
         ELSE grid

\* Mutant of trunk_height: the height is not capped at max_height.
trunk_height_uncapped(structure, day) ==
    (day * structure.growth_rate) \div 100

\* PlantStructure::trunk_height
trunk_height(structure, day) ==
    Min((day * structure.growth_rate) \div 100, structure.max_height)

\* max_length * sigmoid in millionths, rounded down, as f32 arithmetic gives
\* it: row max_length - 3 (max_length 4..13), column days_growing + 1
\* (days_growing 0..3 * max_length, where progress reaches 1.0).
branch_length_micro ==
    <<<<71944, 137780, 259876, 476811, 834434, 1356974, 2000000, 2643025,
        3165565, 3523188, 3740123, 3862219, 3928055>>,
      <<89931, 151378, 252650, 415863, 669639, 1043042, 1550127, 2168627,
        2831372, 3449872, 3956957, 4330360, 4584136, 4747349, 4848621,
        4910068>>,
      <<107917, 166633, 255907, 389815, 586635, 867466, 1251651, 1748035,
        2344094, 3000000, 3655905, 4251965, 4748349, 5132533, 5413364,
        5610184, 5744092, 5833366, 5892082>>,
      <<125903, 182757, 264299, 380192, 542809, 766923, 1068260, 1460259,
        1948843, 2526350, 3167670, 3832329, 4473649, 5051156, 5539740,
        5931739, 6233076, 6457190, 6619806, 6735700, 6817242, 6874096>>,
      <<143889, 199395, 275561, 379406, 519753, 707197, 953623, 1270952,
        1668868, 2151531, 2713948, 3339438, 4000000, 4660561, 5286050,
        5848468, 6331131, 6729046, 7046376, 7292802, 7480246, 7620593,
        7724438, 7800604, 7856110>>,
      <<161875, 216359, 288582, 383861, 508759, 671131, 879953, 1144819,
        1474929, 1877476, 2355498, 2905579, 3516142, 4167274, 4832724,
        5483858, 6094420, 6644500, 7122523, 7525070, 7855180, 8120046,
        8328868, 8491240, 8616139, 8711417, 8783640, 8838124>>,
      <<179862, 233545, 302756, 391657, 505301, 649691, 831726, 1058989,
        1339278, 1679816, 2086085, 2560375, 3100255, 3697397, 4337255,
        5000000, 5662744, 6302601, 6899744, 7439624, 7913914, 8320183,
        8660720, 8941010, 9168272, 9350307, 9494698, 9608343, 9697242,
        9766454, 9820137>>,
      <<197848, 250887, 317726, 401706, 506830, 637809, 800056, 999595,
        1242835, 1536174, 1885368, 2294693, 2765918, 3297258, 3882542,
        4510875, 5167074, 5832925, 6489125, 7117457, 7702741, 8234081,
        8705306, 9114631, 9463826, 9757164, 10000404, 10199942, 10362191,
        10493169, 10598293, 10682273, 10749113, 10802151>>,
      <<215834, 268343, 333266, 413342, 511814, 632466, 779630, 958149,
        1173271, 1430435, 1734933, 2091423, 2503302, 2971965, 3496070,
        4070922, 4688189, 5336063, 6000000, 6663936, 7311811, 7929075,
        8503930, 9028034, 9496698, 9908576, 10265066, 10569564, 10826728,
        11041851, 11220369, 11367533, 11488185, 11586658, 11666733, 11731656,
        11784165>>,
      <<233820, 285886, 349229, 426136, 519284, 631771, 767126, 929301,
        1122615, 1351640, 1621011, 1935148, 2297867, 2711910, 3178402,
        3696307, 4261982, 4868923, 5507815, 6166958, 6833042, 7492185,
        8131076, 8738017, 9303692, 9821598, 10288089, 10702132, 11064851,
        11378989, 11648359, 11877384, 12070698, 12232873, 12368228, 12480714,
        12573862, 12650770, 12714113, 12766179>>>>

\* PlantStructure::branch_length, in millionths
branch_length(branch, current_day) ==
    IF current_day < branch.growth_start_day
    THEN 0
    ELSE branch_length_micro[branch.max_length - 3]
             [Min(current_day - branch.growth_start_day,
                  3 * branch.max_length) + 1]

\* PlantStructure::visible_branches, as the indices of the branches
visible_branches(structure, day) ==
    {k \in 1..Len(structure.branches) :
        structure.branches[k].growth_start_day <= day}

\* PlantStructure::current_foliage_density, in 900ths (tenths of the density
\* times ninetieths of the progress)
current_foliage_density(structure, day) ==
    structure.foliage_density * Min(day, 90)

\* let trunk_char = match stage { ... }
TrunkChar(stage, frame) ==
    CASE stage \in {"Seed", "Germination", "Seedling"} ->
             <<"|", "!">>[(frame % 2) + 1]
      [] stage = "Vegetative" -> <<"|", "!", "I">>[(frame % 3) + 1]
      [] stage \in {"PreFlower", "Flowering"} ->
             <<"|", "!", "I", DoubleBar>>[(frame % 4) + 1]
      [] stage = "ReadyToHarvest" -> <<"I", DoubleBar>>[(frame % 2) + 1]

center == 35

Abs(n) == IF n < 0 THEN -n ELSE n

\* One pass of `for level in trunk_start_level..=27`; state is the grid with
\* split_found and split_level_found.
TrunkLevel(state, level, trunk, trunk_start_level, active_splits) ==
    LET here == {k \in 1..Len(active_splits) :
                    active_splits[k].split_level = 27 - level}
    IN  IF here # {}
        THEN IF ~state.split_found
             THEN LET split == active_splits[CHOOSE k \in here :
                                                \A j \in here : k <= j]
                      split_pos_left == center - Abs(split.angle)
                      split_pos_right == center + Abs(split.angle)
                      drawn == IndexSet(state.lines, level, center, trunk)
                      left == IF split_pos_left < 70 /\ level > 0
                              THEN IndexSet(drawn, level - 1, split_pos_left,
                                            IF split.angle < 0
                                            THEN Backslash ELSE "/")
                              ELSE drawn
                      right == IF split_pos_right < 70 /\ level > 0
                               THEN IndexSet(left, level - 1, split_pos_right,
                                             IF split.angle > 0
                                             THEN "/" ELSE Backslash)
                               ELSE left
                      up == IF level >= 2 /\ right # Panic
                            THEN Vec([y \in 1..28 |-> Vec([x \in 1..70 |->
                                     IF /\ y - 1 >= trunk_start_level
                                        /\ y - 1 < level - 1
                                        /\ \/ x - 1 = split_pos_left
                                           \/ x - 1 = split_pos_right
                                     THEN trunk
                                     ELSE right[y][x]])])
                            ELSE right
                  IN  [lines |-> up, split_found |-> TRUE,
                       split_level_found |-> level]
             ELSE state
        ELSE IF ~state.split_found \/ level > state.split_level_found
             THEN [state EXCEPT
                      !.lines = IndexSet(state.lines, level, center, trunk)]
             ELSE state

\* for level in first..=last of the loop over trunk_start_level..=27; the
\* passes are evaluated as two halves, the second on the state the first
\* leaves.
RECURSIVE TrunkLoop(_, _, _, _, _, _)
TrunkLoop(state, first, last, trunk, trunk_start_level, active_splits) ==
    IF first > last THEN state
    ELSE IF first = last
    THEN TrunkLevel(state, first, trunk, trunk_start_level, active_splits)
    ELSE LET middle == (first + last) \div 2
         IN  Only({TrunkLoop(half, middle + 1, last, trunk,
                             trunk_start_level, active_splits) :
                      half \in {TrunkLoop(state, first, middle, trunk,
                                          trunk_start_level,
                                          active_splits)}})

\* flower_char.chars().next().unwrap_or('*')
FirstChar(flower_char) == IF flower_char = "" THEN "*" ELSE flower_char

\* let ch = ... of the loop over 1..=length_int
BranchChar(branch, i, length_int, show_flowers, flower_char, foliage_density) ==
    IF i = length_int /\ show_flowers THEN FirstChar(flower_char)
    ELSE IF i = 1
    THEN (IF branch.direction < 0 THEN Backslash ELSE "/")
    ELSE IF i = length_int
    THEN (IF foliage_density > 540
          THEN (IF branch.direction < 0 THEN Backslash ELSE "/")
          ELSE (IF branch.direction < 0 THEN "/" ELSE Backslash))
    ELSE IF branch.curve # 0 /\ i > 2
    THEN (IF branch.curve > 0 THEN "/" ELSE Backslash)
    ELSE CASE branch.thickness = 2 -> "="
           [] branch.thickness = 3 -> "#"
           [] OTHER -> "_"

\* The row of step i of a branch at row `level`.
BranchRow(branch, level, i) ==
    IF branch.curve # 0 /\ i > 2
    THEN Min(Max(level - ((i - 2) \div 2) * branch.curve, 0), 27)
    ELSE level

\* One pass of `for i in 1..=length_int`; state is the grid with whether the
\* loop has met its `break`.
BranchStep(state, branch, level, i, length_int, show_flowers, flower_char, foliage_density) ==
    LET x_pos == center + i * branch.direction
        y_pos == BranchRow(branch, level, i)
    IN  IF state.stopped THEN state
        ELSE IF x_pos < 0 \/ x_pos >= 70 \/ y_pos < 0 \/ y_pos >= 28
        THEN [state EXCEPT !.stopped = TRUE]
        ELSE [state EXCEPT
                 !.grid = IndexSetIfBlank(state.grid, y_pos, x_pos,
                              BranchChar(branch, i, length_int, show_flowers,
                                         flower_char, foliage_density))]

\* for i in first..=last of the loop over 1..=length_int, evaluated as two
\* halves
RECURSIVE BranchSteps(_, _, _, _, _, _, _, _, _)
BranchSteps(state, branch, level, first, last, length_int, show_flowers, flower_char, foliage_density) ==
    IF first > last THEN state
    ELSE IF first = last
    THEN BranchStep(state, branch, level, first, length_int, show_flowers,
                    flower_char, foliage_density)
    ELSE LET middle == (first + last) \div 2
         IN  Only({BranchSteps(half, branch, level, middle + 1, last,
                               length_int, show_flowers, flower_char,
                               foliage_density) :
                      half \in {BranchSteps(state, branch, level, first,
                                            middle, length_int, show_flowers,
                                            flower_char, foliage_density)}})

\* Mutant of FoliageStep: the foliage is not kept to the left of column 34.
FoliageStep_any_column(grid, branch, level, length_int, offset, show_flowers, foliage_density) ==
    IF /\ center + (length_int - offset) * branch.direction > 0
       /\ center + (length_int - offset) * branch.direction < 70
       /\ level - 1 < 14
    THEN IF grid = Panic \/ level - 1 < 0 THEN Panic
         ELSE IF /\ grid[level][center + (length_int - offset)
                                     * branch.direction + 1] = Blank
                 /\ foliage_density > 540
              THEN IndexSet(grid, level - 1,
                            center + (length_int - offset) * branch.direction,
                            IF show_flowers
                            THEN (IF offset = 1 THEN "*" ELSE ".")
                            ELSE ":")
              ELSE grid
    ELSE grid

\* One pass of `for offset in 1..=2` of the foliage.
FoliageStep(grid, branch, level, length_int, offset, show_flowers, foliage_density) ==
    LET foliage_x_pos == center + (length_int - offset) * branch.direction
        foliage_y == level - 1
    IN  IF foliage_x_pos > 0 /\ foliage_x_pos < 34 /\ foliage_y < 14
        THEN IF grid = Panic \/ foliage_y < 0 THEN Panic
             ELSE IF /\ grid[foliage_y + 1][foliage_x_pos + 1] = Blank
                     /\ foliage_density > 540
                  THEN IndexSet(grid, foliage_y, foliage_x_pos,
                                IF show_flowers
                                THEN (IF offset = 1 THEN "*" ELSE ".")
                                ELSE ":")
                  ELSE grid
        ELSE grid

\* One pass of the loops over sub_dir and i of the bifurcation.
SubBranchStep(grid, branch, level, split_point, sub_dir, i, show_flowers, flower_char) ==
    LET base_x == center + split_point * branch.direction
        x_pos == base_x + i * sub_dir
        y_pos == level - (i \div 2)
    IN  IF x_pos >= 0 /\ x_pos < 70 /\ y_pos >= 0 /\ y_pos < 28
        THEN IndexSetIfBlank(grid, y_pos, x_pos,
                 IF i = 2 /\ show_flowers THEN FirstChar(flower_char)
                 ELSE IF sub_dir < 0 THEN Backslash ELSE "/")
        ELSE grid

\* The branch is drawn at `day`: the tests of the loop over the visible
\* branches that do not `continue`.
BranchDrawn(structure, branch, day) ==
    /\ branch.growth_start_day <= day
    /\ 27 - branch.level < 27
    /\ branch.level <= trunk_height(structure, day)
    /\ branch_length(branch, day) >= 500000

\* let length_int = current_length.ceil() as u8
length_int_of(branch, day) ==
    (branch_length(branch, day) + 999999) \div 1000000

\* `for i in 1..=length_int` of one branch: the branch itself.
DrawBranchSteps(grid, structure, branch, day, show_flowers, flower_char) ==
    BranchSteps([grid |-> grid, stopped |-> FALSE], branch,
                27 - branch.level, 1, length_int_of(branch, day),
                length_int_of(branch, day), show_flowers, flower_char,
                current_foliage_density(structure, day)).grid

\* if foliage_density > 0.5 && length_int >= 3 && level > 0 { for offset in
\* 1..=2 { .. } }
DrawFoliage(grid, structure, branch, day, show_flowers) ==
    IF /\ current_foliage_density(structure, day) > 450
       /\ length_int_of(branch, day) >= 3
       /\ 27 - branch.level > 0
    THEN FoliageStep(
             FoliageStep(grid, branch, 27 - branch.level,
                         length_int_of(branch, day), 1, show_flowers,
                         current_foliage_density(structure, day)),
             branch, 27 - branch.level, length_int_of(branch, day), 2,
             show_flowers, current_foliage_density(structure, day))
    ELSE grid

\* let split_point = (length_int * 2 / 3).max(2)
split_point_of(branch, day) == Max((length_int_of(branch, day) * 2) \div 3, 2)

\* if is_bifurcating && length_int >= 3 { for sub_dir in [-1, 1].iter() { for
\* i in 1..=2 { .. } } }
DrawSubBranches(grid, branch, day, show_flowers, flower_char) ==
    IF /\ branch.can_bifurcate
       /\ day >= branch.bifurcation_day
       /\ length_int_of(branch, day) >= 3
    THEN SubBranchStep(
             SubBranchStep(
                 SubBranchStep(
                     SubBranchStep(grid, branch, 27 - branch.level,
                                   split_point_of(branch, day), -1, 1,
                                   show_flowers, flower_char),
                     branch, 27 - branch.level, split_point_of(branch, day),
                     -1, 2, show_flowers, flower_char),
                 branch, 27 - branch.level, split_point_of(branch, day), 1, 1,
                 show_flowers, flower_char),
             branch, 27 - branch.level, split_point_of(branch, day), 1, 2,
             show_flowers, flower_char)
    ELSE grid

\* One pass of `for branch in visible.iter()`.
DrawBranch(grid, structure, branch, day, show_flowers, flower_char) ==
    IF ~BranchDrawn(structure, branch, day) THEN grid
    ELSE DrawSubBranches(
             DrawFoliage(
                 DrawBranchSteps(grid, structure, branch, day, show_flowers,
                                 flower_char),
                 structure, branch, day, show_flowers),
             branch, day, show_flowers, flower_char)

\* for branch in visible.iter(), over the branches first..last; the passes
\* are evaluated as two halves, the second on the grid the first leaves.
RECURSIVE DrawBranches(_, _, _, _, _, _, _)
DrawBranches(grid, structure, first, last, day, show_flowers, flower_char) ==
    IF first > last THEN grid
    ELSE IF first = last
    THEN DrawBranch(grid, structure, structure.branches[first], day,
                    show_flowers, flower_char)
    ELSE LET middle == (first + last) \div 2
         IN  Only({DrawBranches(half, structure, middle + 1, last, day,
                                show_flowers, flower_char) :
                      half \in {DrawBranches(grid, structure, first, middle,
                                             day, show_flowers,
                                             flower_char)}})

\* Mutant of DrawSoil: the soil is written on blank cells only.
DrawSoil_on_blank(grid) ==
    IF grid = Panic THEN Panic
    ELSE [grid EXCEPT ![28] = Vec([x \in 1..70 |->
                                      IF /\ x - 1 >= 16 /\ x - 1 < 16 + 38
                                         /\ @[x] = Blank
                                      THEN "~" ELSE @[x]])]

\* The soil line: lines[27][16 + i] = c for the 38 chars of soil.
DrawSoil(grid) ==
    IF grid = Panic THEN Panic
    ELSE [grid EXCEPT ![28] = Vec([x \in 1..70 |->
                                      IF x - 1 >= 16 /\ x - 1 < 16 + 38
                                      THEN "~" ELSE @[x]])]

\* The grid when the loop over the trunk rows has ended (line 452 of art.rs).
PaintedTrunk(day, structure, frame, stage) ==
    LET trunk_char == TrunkChar(stage, frame)
        current_trunk_height == trunk_height(structure, day)
        trunk_start_level == Max(27 - current_trunk_height, 0)
        active_splits == SelectSeq(structure.trunk_splits,
                                   LAMBDA s : s.split_day <= day)
    IN  IF 27 - current_trunk_height < 0 THEN Panic
        ELSE TrunkLoop([lines |-> BlankLines, split_found |-> FALSE,
                        split_level_found |-> 0],
                       trunk_start_level, 27, trunk_char,
                       trunk_start_level, active_splits).lines

\* The grid at the end of the painting (line 586 of art.rs).
PaintedLines(day, structure, frame, show_flowers, flower_char, stage) ==
    Only({DrawSoil(DrawBranches(grid, structure, 1,
                                Len(structure.branches), day,
                                show_flowers, flower_char)) :
             grid \in {PaintedTrunk(day, structure, frame, stage)}})

\* Mutant of FormatRow: the row is cut at 70 bytes and not padded.
FormatRow_unpadded(row) ==
    LET bars == {x \in 1..70 : row[x] = DoubleBar}
        cut == {k \in 0..70 :
                   k + (len_utf8(DoubleBar) - 1)
                           * Cardinality({x \in bars : x <= k}) = 70}
    IN  IF cut = {} THEN row ELSE SubSeq(row, 1, Only(cut))

\* format!("{:70}", s.get(..70).unwrap_or(&s)): s.get(..70) is the chars that
\* end within the first 70 bytes, None where byte 70 is inside a char; the
\* format pads to 70 chars with spaces.
FormatRow(row) ==
    LET bars == {x \in 1..70 : row[x] = DoubleBar}
        cut == {k \in 0..70 :
                   k + (len_utf8(DoubleBar) - 1)
                           * Cardinality({x \in bars : x <= k}) = 70}
        s == IF cut = {} THEN row ELSE SubSeq(row, 1, Only(cut))
    IN  s \o [x \in 1..(70 - Len(s)) |-> Blank]

\* lines.into_iter().map(...).collect()
FormatLines(grid) ==
    IF grid = Panic THEN Panic
    ELSE Vec([y \in 1..28 |-> FormatRow(grid[y])])

\* The arguments render_seedling .. render_harvest pass on.
ShowFlowers(stage) == stage \in {"PreFlower", "Flowering", "ReadyToHarvest"}

FlowerChar(stage, frame) ==
    CASE stage = "PreFlower" ->
             <<".", "*", ".", " ", ".", "*", ".", " ">>[(frame % 8) + 1]
      [] stage = "Flowering" ->
             <<"o", "o", "O", "O", "@", "@", "O", "O", "o", "o", ".", ".">>
                 [(frame % 12) + 1]
      [] stage = "ReadyToHarvest" ->
             <<"@", "#", "@", "*", "#", "@", "*", "#">>[(frame % 8) + 1]
      [] OTHER -> ""

\* render_plant_structure: the Vec<String> it returns, with the grid `lines`
\* it was made from.
render_plant_structure(day, structure, frame, show_flowers, flower_char, stage) ==
    LET painted == PaintedLines(day, structure, frame, show_flowers,
                                flower_char, stage)
    IN  Only({[lines |-> grid, returned |-> FormatLines(grid)] :
                 grid \in {painted}})

\* PlantStructure::get_or_generate(seed) when one thread runs it from lock()
\* to the return: the structure returned and the map it leaves.
get_or_generate(cache, seed) ==
    IF seed \in DOMAIN cache
    THEN [structure |-> cache[seed], cache |-> cache]
    ELSE Only({[structure |-> structure,
                cache |-> HashMap_insert(cache, seed, structure)] :
                  structure \in {StructureOf(seed)}})

\* get_plant_ascii(stage, day, seed, frame), the call ui::growing makes to
\* draw the plant.
get_plant_ascii(stage, day, seed, frame) ==
    /\ \E got \in {get_or_generate(PLANT_CACHE, seed)} :
           /\ PLANT_CACHE' = got.cache
           /\ \E drawn \in {render_plant_structure(day, got.structure, frame,
                                  ShowFlowers(stage),
                                  FlowerChar(stage, frame), stage)} :
                  /\ lines' = drawn.lines
                  /\ plant_ascii' = drawn.returned
    /\ render_args' = [stage |-> stage, day |-> day, seed |-> seed,
                        frame |-> frame]
    /\ UNCHANGED <<lock_owner, callers, generate_log>>
    /\ UNCHANGED <<app_vars, disk_vars>>

\* The days of a plant's life at which the model draws it, in order.
RenderDays == <<0, 1, 10, 22, 30, 41, 47, 52, 60, 65, 78, 90, 120>>

\* The values of animation_frame at which the model draws, in a cycle.
RenderFrames == <<0, 3, 7>>

\* The stage drawn out of step with the day: one without flowers for a day
\* whose stage has them, one with flowers otherwise.
OtherStage(day) ==
    IF ShowFlowers(calculate_stage(day)) THEN "Vegetative" ELSE "Flowering"

\* The first draw of the plant.
DrawNewPlant ==
    /\ render_args = <<>>
    /\ \E seed \in AllSeeds, f \in 1..Len(RenderFrames) :
           get_plant_ascii(calculate_stage(RenderDays[1]), RenderDays[1],
                           seed, RenderFrames[f])

\* The plant is drawn again when it has reached the next of the days.
DrawLaterDay ==
    /\ render_args # <<>>
    /\ render_args.stage = calculate_stage(render_args.day)
    /\ \E d \in 1..(Len(RenderDays) - 1) :
           /\ RenderDays[d] = render_args.day
           /\ get_plant_ascii(calculate_stage(RenderDays[d + 1]),
                              RenderDays[d + 1], render_args.seed,
                              render_args.frame)

\* The plant is drawn again at the next frame of the animation.
DrawNextFrame ==
    /\ render_args # <<>>
    /\ render_args.stage = calculate_stage(render_args.day)
    /\ \E f \in 1..Len(RenderFrames) :
           /\ RenderFrames[f] = render_args.frame
           /\ get_plant_ascii(render_args.stage, render_args.day,
                              render_args.seed,
                              RenderFrames[(f % Len(RenderFrames)) + 1])

\* The same day and frame drawn at a stage that is not the day's.
DrawOtherStage ==
    /\ render_args # <<>>
    /\ render_args.stage = calculate_stage(render_args.day)
    /\ get_plant_ascii(OtherStage(render_args.day), render_args.day,
                       render_args.seed, render_args.frame)

RenderNext ==
    \/ DrawNewPlant
    \/ DrawLaterDay
    \/ DrawNextFrame
    \/ DrawOtherStage

----------------------------------------------------------------------------
(* app.rs: App *)

\* App::new: the state after construction, the first seed planted.  The wall
\* clock starts at 0.
Init ==
    /\ \E genetics \in GeneticsPool :
           current_plant = Some(new_random(genetics, 1, 0))
    /\ harvest_history = <<>>
    /\ last_tick = 0
    /\ total_harvests = 0
    /\ auto_harvest = FALSE
    /\ visual_mode = "Normal"
    /\ current_screen = "GrowingRoom"
    /\ running = TRUE
    /\ animation_frame = 0
    /\ \E supports_truecolor \in BOOLEAN :
           color_palette = create_palette(supports_truecolor, "Normal")
    /\ save_file = None
    /\ disk_ok = TRUE
    /\ exited = FALSE
    /\ launches = 1
    /\ PLANT_CACHE = <<>>
    /\ lock_owner = NoThread
    /\ callers = [t \in Threads |-> Caller(<<>>)]
    /\ generate_log = <<>>
    /\ render_args = <<>>
    /\ lines = <<>>
    /\ plant_ascii = <<>>

\* Mutant of plant_new_seed: the seed is never planted.
plant_new_seed_forgets(uuid, now) ==
    current_plant' = None

\* self.current_plant = Some(Plant::new_random()), for a plant numbered uuid
plant_new_seed(uuid, now) ==
    \E genetics \in GeneticsPool :
        current_plant' = Some(new_random(genetics, uuid, now))

\* Mutant of harvest_and_replant: the harvest is recorded but not counted.
harvest_and_replant_uncounted(taken, now) ==
    IF taken # None
    THEN /\ harvest_history' = Append(harvest_history, from_plant(taken[1], now))
         /\ total_harvests' = total_harvests
         /\ plant_new_seed(total_harvests + 2, now)
    ELSE /\ current_plant' = None
         /\ UNCHANGED <<harvest_history, total_harvests>>

\* App::harvest_and_replant on a `taken` Option<Plant> (self.current_plant.take()),
\* at wall-clock time `now`.
harvest_and_replant(taken, now) ==
    IF taken # None
    THEN /\ harvest_history' = Append(harvest_history, from_plant(taken[1], now))
         /\ total_harvests' = total_harvests + 1
         /\ plant_new_seed(total_harvests + 2, now)
    ELSE /\ current_plant' = None
         /\ UNCHANGED <<harvest_history, total_harvests>>

toggle_auto_harvest ==
    auto_harvest' = ~auto_harvest

cycle_visual_mode ==
    IF ~supports_rgb(color_palette)
    THEN UNCHANGED <<visual_mode, color_palette>>
    ELSE /\ visual_mode' = visual_mode_next(visual_mode)
         /\ color_palette' =
                create_palette(supports_rgb(color_palette),
                               visual_mode_next(visual_mode))

\* Mutant of AutoHarvestDue: the auto_harvest flag is not consulted.
AutoHarvestDue_unflagged(plant) ==
    /\ plant.stage = "ReadyToHarvest"
    /\ plant.days_alive >= 96

\* Mutant of AutoHarvestDue: the test reads the stage before ReadyToHarvest.
AutoHarvestDue_flowering(plant) ==
    /\ auto_harvest
    /\ plant.stage = "Flowering"
    /\ plant.days_alive >= 96

\* The auto-harvest test of update_time, on the plant as updated by this tick.
AutoHarvestDue(plant) ==
    /\ auto_harvest
    /\ plant.stage = "ReadyToHarvest"
    /\ plant.days_alive >= 96

\* App::update_time(elapsed_seconds), elapsed_ms > 0 milliseconds.
update_time(elapsed_ms) ==
    LET now == last_tick + elapsed_ms
    IN  /\ now <= MaxClock
        /\ IF current_plant # None
           THEN \E plant \in {UpdatePlant(current_plant[1],
                                            hours_elapsed_of(elapsed_ms))} :
                    IF AutoHarvestDue(plant)
                    THEN /\ total_harvests < MaxHarvests
                         /\ harvest_and_replant(Some(plant), now)
                    ELSE /\ current_plant' = Some(plant)
                         /\ UNCHANGED <<harvest_history, total_harvests>>
           ELSE UNCHANGED <<current_plant, harvest_history, total_harvests>>
        /\ last_tick' = now
        /\ animation_frame' = (animation_frame + 1) % FrameWrap

----------------------------------------------------------------------------
(* update.rs: update(app, message), one operator per message *)

\* Message::Tick, the wall clock elapsed_ms after last_tick (0 stands for
\* every reading that is not later than last_tick).
Tick(elapsed_ms) ==
    /\ IF elapsed_ms > 0
       THEN update_time(elapsed_ms)
       ELSE UNCHANGED <<current_plant, harvest_history, total_harvests,
                        last_tick, animation_frame>>
    /\ UNCHANGED <<auto_harvest, visual_mode, current_screen, running,
                   color_palette>>

SwitchScreen(screen) ==
    /\ current_screen' = screen
    /\ UNCHANGED <<current_plant, harvest_history, last_tick, total_harvests,
                   auto_harvest, visual_mode, running, animation_frame,
                   color_palette>>

\* Mutant of Quit: the message also rewinds the animation.
Quit_rewinding ==
    /\ running' = FALSE
    /\ animation_frame' = 0
    /\ UNCHANGED <<current_plant, harvest_history, last_tick, total_harvests,
                   auto_harvest, visual_mode, current_screen, color_palette>>

Quit ==
    /\ running' = FALSE
    /\ UNCHANGED <<current_plant, harvest_history, last_tick, total_harvests,
                   auto_harvest, visual_mode, current_screen, animation_frame,
                   color_palette>>

HarvestPlant ==
    /\ total_harvests < MaxHarvests
    /\ harvest_and_replant(current_plant, last_tick)
    /\ UNCHANGED <<last_tick, auto_harvest, visual_mode, current_screen,
                   running, animation_frame, color_palette>>

ToggleAutoHarvest ==
    /\ toggle_auto_harvest
    /\ UNCHANGED <<current_plant, harvest_history, last_tick, total_harvests,
                   visual_mode, current_screen, running, animation_frame,
                   color_palette>>

CycleVisualMode ==
    /\ cycle_visual_mode
    /\ UNCHANGED <<current_plant, harvest_history, last_tick, total_harvests,
                   auto_harvest, current_screen, running, animation_frame>>

----------------------------------------------------------------------------
(* storage/persistence.rs and the serde attributes of App (app.rs).  A JSON  *)
(* document is a record of its members; null is JsonNull.  Numbers, strings  *)
(* and the names of enum variants are written and read back digit for digit. *)

JsonNull == [null |-> TRUE]

\* Option<T> as JSON: null or the value.
OptionToJson(option) == IF option = None THEN JsonNull ELSE option[1]

OptionFromJson(json) == IF json = JsonNull THEN None ELSE Some(json)

\* The App in memory, as a record of its fields.
App ==
    [current_plant |-> current_plant,
     harvest_history |-> harvest_history,
     last_tick |-> last_tick,
     total_harvests |-> total_harvests,
     auto_harvest |-> auto_harvest,
     visual_mode |-> visual_mode,
     current_screen |-> current_screen,
     running |-> running,
     animation_frame |-> animation_frame,
     color_palette |-> color_palette]

\* *app = ...: the App in memory becomes `app`.
AppBecomes(app) ==
    /\ current_plant' = app.current_plant
    /\ harvest_history' = app.harvest_history
    /\ last_tick' = app.last_tick
    /\ total_harvests' = app.total_harvests
    /\ auto_harvest' = app.auto_harvest
    /\ visual_mode' = app.visual_mode
    /\ current_screen' = app.current_screen
    /\ running' = app.running
    /\ animation_frame' = app.animation_frame
    /\ color_palette' = app.color_palette

\* App::new(supports_truecolor) at wall-clock time `now`, as a value.
App_new(supports_truecolor, genetics, now) ==
    [current_plant |-> Some(new_random(genetics, 1, now)),
     harvest_history |-> <<>>,
     last_tick |-> now,
     total_harvests |-> 0,
     auto_harvest |-> FALSE,
     visual_mode |-> "Normal",
     current_screen |-> "GrowingRoom",
     running |-> TRUE,
     animation_frame |-> 0,
     color_palette |-> create_palette(supports_truecolor, "Normal")]

default_visual_mode == "Normal"

default_color_palette == create_palette(FALSE, "Normal")

\* Mutant of to_string_pretty: visual_mode is skipped like the UI fields.
to_string_pretty_skips_mode(app) ==
    [current_plant |-> OptionToJson(app.current_plant),
     harvest_history |-> app.harvest_history,
     last_tick |-> app.last_tick,
     total_harvests |-> app.total_harvests,
     auto_harvest |-> app.auto_harvest]

\* serde_json::to_string_pretty(app): the fields marked #[serde(skip)] are
\* left out.
to_string_pretty(app) ==
    [current_plant |-> OptionToJson(app.current_plant),
     harvest_history |-> app.harvest_history,
     last_tick |-> app.last_tick,
     total_harvests |-> app.total_harvests,
     auto_harvest |-> app.auto_harvest,
     visual_mode |-> app.visual_mode]

\* serde_json::from_str::<App>(json): a skipped field takes its default, and
\* so does visual_mode where the document has none.
from_str(json) ==
    [current_plant |-> OptionFromJson(json.current_plant),
     harvest_history |-> json.harvest_history,
     last_tick |-> json.last_tick,
     total_harvests |-> json.total_harvests,
     auto_harvest |-> json.auto_harvest,
     visual_mode |-> IF "visual_mode" \in DOMAIN json
                     THEN json.visual_mode
                     ELSE default_visual_mode,
     current_screen |-> "GrowingRoom",
     running |-> FALSE,
     animation_frame |-> 0,
     color_palette |-> default_color_palette]

\* storage::load(supports_truecolor) with save.json as `file`, as main calls
\* it: Err, where the disk fails, is replaced by App::new.
load(supports_truecolor, file, genetics, now) ==
    IF ~disk_ok \/ file = None
    THEN App_new(supports_truecolor, genetics, now)
    ELSE LET app == from_str(file[1])
         IN  [app EXCEPT
                 !.running = TRUE,
                 !.current_screen = "GrowingRoom",
                 !.animation_frame = 0,
                 !.color_palette =
                     create_palette(supports_truecolor, app.visual_mode)]

\* storage::save(app) on the App this pass leaves in memory.  Where the disk
\* fails the file keeps what it had; run_app prints the Err and goes on.
storage_save ==
    IF disk_ok
    THEN save_file' = Some(to_string_pretty(App'))
    ELSE UNCHANGED save_file

\* Mutant of LoopBreaks: the Err of storage::save leaves the loop, as `?`
\* would.
LoopBreaks_on_error(after_key) ==
    \/ after_key /\ ~running'
    \/ ~disk_ok

\* if !app.running { break; }, which only the branch of a key press has.
LoopBreaks(after_key) == after_key /\ ~running'

\* Step 4 of a pass of run_app: the save and the test of app.running.  The
\* draw of step 1 writes to the terminal and to PLANT_CACHE only; the
\* renderer is modelled on its own below.
Persist(after_key) ==
    /\ ~exited
    /\ storage_save
    /\ exited' = LoopBreaks(after_key)
    /\ UNCHANGED <<disk_ok, launches, cache_vars, render_vars>>

----------------------------------------------------------------------------
(* main.rs: run_app, one action per pass of the loop *)

Keys == {"q", "1", "2", "s", "a", "v", "h", "x"}

\* 'h' maps to HarvestPlant only when the plant is ready.
HarvestKeyReady ==
    /\ current_plant # None
    /\ current_plant[1].stage = "ReadyToHarvest"

\* No key within the poll timeout: a Tick.
NoInput ==
    /\ running
    /\ \E elapsed_ms \in ElapsedSet \cup {0} : Tick(elapsed_ms)
    /\ Persist(FALSE)

KeyQuit ==
    /\ running
    /\ Quit
    /\ Persist(TRUE)

KeySwitchScreen ==
    /\ running
    /\ \E key \in {"1", "2", "s"} :
           SwitchScreen(IF key = "1" THEN "GrowingRoom" ELSE "Stats")
    /\ Persist(TRUE)

KeyToggleAutoHarvest ==
    /\ running
    /\ ToggleAutoHarvest
    /\ Persist(TRUE)

KeyCycleVisualMode ==
    /\ running
    /\ CycleVisualMode
    /\ Persist(TRUE)

KeyHarvest ==
    /\ running
    /\ IF HarvestKeyReady
       THEN HarvestPlant
       ELSE \E elapsed_ms \in ElapsedSet \cup {0} : Tick(elapsed_ms)
    /\ Persist(TRUE)

\* Every other key is a Tick.
KeyOther ==
    /\ running
    /\ \E elapsed_ms \in ElapsedSet \cup {0} : Tick(elapsed_ms)
    /\ Persist(TRUE)

Next ==
    \/ NoInput
    \/ KeyQuit
    \/ KeySwitchScreen
    \/ KeyToggleAutoHarvest
    \/ KeyCycleVisualMode
    \/ KeyHarvest
    \/ KeyOther

Spec == Init /\ [][Next]_vars

\* A Tick that observes a positive elapsed time.
PositiveTick ==
    /\ running
    /\ \E elapsed_ms \in ElapsedSet : Tick(elapsed_ms)
    /\ Persist(FALSE)

\* The passes of the loop that reach the simulation: every key but the
\* screen keys and the visual-mode key, which touch current_screen,
\* visual_mode and color_palette only.
SimNext ==
    \/ NoInput
    \/ KeyQuit
    \/ KeyToggleAutoHarvest
    \/ KeyHarvest
    \/ KeyOther

\* The loop keeps polling: while the application runs, a Tick with positive
\* elapsed time eventually comes.
LiveSpec == Init /\ [][SimNext]_vars /\ WF_vars(PositiveTick)

----------------------------------------------------------------------------
(* The disk under the save file, and main started again after run_app left
   its loop. *)

\* get_save_path or fs::write starts to fail.
DiskBreaks ==
    /\ ~exited
    /\ disk_ok
    /\ disk_ok' = FALSE
    /\ UNCHANGED <<save_file, exited, launches>>
    /\ UNCHANGED <<app_vars, cache_vars, render_vars>>

\* The disk works again.
DiskRecovers ==
    /\ ~exited
    /\ ~disk_ok
    /\ disk_ok' = TRUE
    /\ UNCHANGED <<save_file, exited, launches>>
    /\ UNCHANGED <<app_vars, cache_vars, render_vars>>

\* main, started after the previous run has ended: the App is loaded from
\* save.json, or made new, and run_app enters its loop.  The wall clock reads
\* what it read at the last tick of the previous run.
Relaunch ==
    /\ exited
    /\ launches < MaxLaunches
    /\ \E supports_truecolor \in BOOLEAN, genetics \in GeneticsPool :
           AppBecomes(load(supports_truecolor, save_file, genetics,
                           last_tick))
    /\ exited' = FALSE
    /\ launches' = launches + 1
    /\ UNCHANGED <<save_file, disk_ok>>
    /\ UNCHANGED <<cache_vars, render_vars>>

\* The clock readings of the polls of this run: no time has passed since the
\* last tick, or 64.8 s have.
LongPoll == last_tick' - last_tick \in {0, 64800}

PersistNext ==
    \/ NoInput /\ LongPoll
    \/ KeyQuit
    \/ KeySwitchScreen
    \/ KeyToggleAutoHarvest
    \/ KeyCycleVisualMode
    \/ KeyHarvest /\ LongPoll
    \/ KeyOther /\ LongPoll
    \/ DiskBreaks
    \/ DiskRecovers
    \/ Relaunch

\* run_app over a disk that may fail, in a process that may be started again.
PersistSpec == Init /\ [][PersistNext]_vars

----------------------------------------------------------------------------
(* The stress checks and the health computation of update_time on their own,
   applied to a planted seed at levels and days drawn from the sets above:
   ticks from App::new keep the levels inside [40, 90), where no stress
   condition holds and health is never Critical. *)

\* Lines 217-250 of update_time on the plant at the given levels, `days`
\* days after the previous check.
StressCheck(water, nutrients, days) ==
    /\ current_plant # None
    /\ current_plant[1].days_alive + days <= StressMaxDay
    /\ current_plant' =
           Some(DetectStress([current_plant[1] EXCEPT
                                 !.days_alive = @ + days,
                                 !.water_level = water,
                                 !.nutrient_level = nutrients]))
    /\ UNCHANGED <<harvest_history, last_tick, total_harvests, auto_harvest,
                   visual_mode, current_screen, running, animation_frame,
                   color_palette>>
    /\ UNCHANGED <<disk_vars, cache_vars, render_vars>>

StressNext ==
    \E levels \in StressLevels, days \in DayJumps :
        StressCheck(levels[1], levels[2], days)

\* One planted seed: the genome and the palette play no part in the checks.
StressInit ==
    /\ Init
    /\ current_plant[1].genetics.yield_potential = 100
    /\ color_palette = "Basic16Palette"

StressSpec == StressInit /\ [][StressNext]_vars

\* Line 191 of update_time on the plant at the given levels.
HealthCheck(water, nutrients) ==
    /\ current_plant # None
    /\ current_plant' =
           Some(RecomputeHealth([current_plant[1] EXCEPT
                                    !.water_level = water,
                                    !.nutrient_level = nutrients]))
    /\ UNCHANGED <<harvest_history, last_tick, total_harvests, auto_harvest,
                   visual_mode, current_screen, running, animation_frame,
                   color_palette>>
    /\ UNCHANGED <<disk_vars, cache_vars, render_vars>>

HealthNext ==
    \E water \in LevelGrid, nutrients \in LevelGrid :
        HealthCheck(water, nutrients)

HealthSpec == StressInit /\ [][HealthNext]_vars

\* Threads calling get_or_generate, in a process that may be started again.
CacheSpec == StressInit /\ [][CacheNext]_vars

\* A step of thread t inside get_or_generate.
CallStep(t) ==
    \/ Lock(t)
    \/ Lookup(t)
    \/ GenerateBegin(t)
    \/ GenerateDraw(t)
    \/ GenerateEnd(t)
    \/ InsertBegin(t)
    \/ InsertEnd(t)
    \/ Return(t)

\* Fair scheduling of the threads: a thread that can go on inside the call
\* does, and a thread that waits in lock() gets the guard if the guard is
\* free again and again.
CacheFairness ==
    \A t \in Threads :
        /\ SF_vars(Lock(t))
        /\ WF_vars(Lookup(t))
        /\ WF_vars(GenerateBegin(t))
        /\ WF_vars(GenerateDraw(t))
        /\ WF_vars(GenerateEnd(t))
        /\ WF_vars(InsertBegin(t))
        /\ WF_vars(InsertEnd(t))
        /\ WF_vars(Return(t))

\* Threads calling get_or_generate under fair scheduling.
CacheLiveSpec == StressInit /\ [][CacheNext]_vars /\ CacheFairness

\* One thread calling get_or_generate on every seed of the model.
GenSpec == StressInit /\ [][GenNext]_vars

\* The growing room drawing a plant along its days.
RenderSpec == StressInit /\ [][RenderNext]_vars

----------------------------------------------------------------------------
(* Properties of the growth simulation *)

\* The live plant, where there is one.
Plant == current_plant[1]

\* A step that keeps the same plant (no harvest in between).
SamePlantStep ==
    /\ current_plant # None
    /\ current_plant' # None
    /\ current_plant'[1].id = current_plant[1].id

\* C1: from planting until harvest, neither days_alive nor the stage of a plant
\* ever decreases; the stage only moves forward in the order of the enum.
C1_NoRegression ==
    [][SamePlantStep =>
          /\ current_plant'[1].days_alive >= current_plant[1].days_alive
          /\ StageRank(current_plant'[1].stage) >= StageRank(current_plant[1].stage)]_vars

\* The day band of the specification: 1-10, 11-40, 41-48, 49-85, 86+.
StageBand(stage, days) ==
    /\ (stage = "Seedling") <=> (days >= 1 /\ days <= 10)
    /\ (stage = "Vegetative") <=> (days >= 11 /\ days <= 40)
    /\ (stage = "PreFlower") <=> (days >= 41 /\ days <= 48)
    /\ (stage = "Flowering") <=> (days >= 49 /\ days <= 85)
    /\ (stage = "ReadyToHarvest") <=> (days >= 86)

\* C2: the stage of the plant is exactly the day band of its days_alive, for
\* every days_alive a tick produces.
C2_StageIsDayBand ==
    current_plant # None => StageBand(Plant.stage, Plant.days_alive)

\* A step that harvests: the history, the counter or the plant's identity changes.
HarvestStep ==
    \/ total_harvests' # total_harvests
    \/ harvest_history' # harvest_history
    \/ ~SamePlantStep

\* The plant a harvesting step takes out: the current one for a manual
\* harvest, the one as updated by the tick for an automatic harvest.
OutgoingPlant ==
    IF last_tick' = last_tick
    THEN current_plant[1]
    ELSE UpdatePlant(current_plant[1], hours_elapsed_of(last_tick' - last_tick))

\* A plant as planted: day 1, Seedling, no hours, 60/60, vegetative light
\* cycle, empty care history.
FreshPlant(p) ==
    /\ p.days_alive = 1
    /\ p.stage = "Seedling"
    /\ p.total_hours_elapsed = 0
    /\ p.water_level = 6000
    /\ p.nutrient_level = 6000
    /\ p.light_cycle = "Veg18_6"
    /\ p.care_history.total_hours = 0
    /\ p.care_history.total_optimal_water_hours = 0
    /\ p.care_history.total_optimal_nutrient_hours = 0
    /\ p.care_history.stress_events = <<>>

\* C3: a harvest (manual or automatic) appends exactly one HarvestResult,
\* computed from the outgoing plant, to the end of harvest_history and leaves
\* the earlier entries alone, adds exactly 1 to total_harvests and puts a fresh
\* plant in place; total_harvests is always the length of harvest_history.
C3_HarvestAppendsOne ==
    /\ [](total_harvests = Len(harvest_history))
    /\ [][HarvestStep =>
            /\ current_plant # None
            /\ harvest_history' =
                   Append(harvest_history, from_plant(OutgoingPlant, last_tick'))
            /\ harvest_history'[Len(harvest_history')].harvest_day =
                   OutgoingPlant.days_alive
            /\ total_harvests' = total_harvests + 1
            /\ current_plant' # None
            /\ current_plant'[1].id # current_plant[1].id
            /\ FreshPlant(current_plant'[1])]_vars

\* Both kinds of harvest have happened: one at day 96 or later and one more,
\* and the plant in place is the fresh one.
C3_Witness ==
    /\ total_harvests = 2
    /\ Len(harvest_history) = 2
    /\ \E i \in 1..2 : harvest_history[i].harvest_day >= 96
    /\ current_plant # None
    /\ FreshPlant(Plant)

\* C4: the application holds exactly one live plant in every reachable state.
C4_AlwaysOnePlant ==
    Len(current_plant) = 1

\* Right after a harvest there is a plant.
C4_Witness ==
    /\ total_harvests >= 1
    /\ Len(current_plant) = 1
    /\ Plant.id = total_harvests + 1
    /\ Plant.total_hours_elapsed = 0

\* A step of update_time: only update_time moves last_tick.
TimeStep == last_tick' # last_tick

\* C5: a tick harvests and replants if and only if auto-harvest is enabled and
\* the plant as updated by the tick is ReadyToHarvest with days_alive >= 96;
\* otherwise it leaves the history, the counter and the plant's identity alone.
C5_AutoHarvestIff ==
    [][(TimeStep /\ current_plant # None) =>
          LET hours == hours_elapsed_of(last_tick' - last_tick)
              days == (current_plant[1].total_hours_elapsed + hours) \div 240
              due == /\ auto_harvest
                     /\ calculate_stage(days) = "ReadyToHarvest"
                     /\ days >= 96
          IN  /\ due =>
                    /\ total_harvests' = total_harvests + 1
                    /\ Len(harvest_history') = Len(harvest_history) + 1
                    /\ current_plant'[1].id # current_plant[1].id
              /\ ~due =>
                    /\ total_harvests' = total_harvests
                    /\ harvest_history' = harvest_history
                    /\ current_plant'[1].id = current_plant[1].id]_vars

\* A tick has just harvested automatically at day 96 or later.
C5_Witness ==
    /\ auto_harvest
    /\ total_harvests >= 1
    /\ harvest_history[Len(harvest_history)].harvest_day >= 96
    /\ harvest_history[Len(harvest_history)].completed_at = last_tick
    /\ Plant.total_hours_elapsed = 0
    /\ last_tick > 0

\* The run has room for the live plant to reach day 96 by ticks of 648 ms
\* (234 deci-hours) and to be harvested.
RoomToRipen ==
    /\ current_plant # None
    /\ total_harvests < MaxHarvests
    /\ LET short == 23040 - Plant.total_hours_elapsed
           ticks == IF short <= 0 THEN 1 ELSE (short + 233) \div 234
       IN  last_tick + 648 * ticks <= MaxClock

\* C6: with auto-harvest enabled and ticks of positive elapsed time coming,
\* every plant is eventually harvested and replaced (unless auto-harvest is
\* switched off or the application quits first): no plant stays forever.
C6_EventuallyHarvested ==
    \A n \in 0..(MaxHarvests - 1) :
        (auto_harvest /\ running /\ total_harvests = n /\ RoomToRipen)
            ~> (total_harvests > n \/ ~auto_harvest \/ ~running)

\* An automatic harvest of a plant that grew tick by tick through day 95.
C6_Witness ==
    /\ auto_harvest
    /\ total_harvests >= 1
    /\ harvest_history[Len(harvest_history)].harvest_day = 96
    /\ harvest_history[Len(harvest_history)].completed_at = last_tick
    /\ Plant.total_hours_elapsed = 0

\* The stress events of the live plant.
StressEvents == Plant.care_history.stress_events

\* The stress condition of a cause at the given levels.
StressHolds(cause, water, nutrients) ==
    CASE cause = "LowWater" -> water < 2000
      [] cause = "HighWater" -> water > 9000
      [] cause = "LowNutrients" -> nutrients < 3000
      [] cause = "NutrientBurn" -> nutrients > 9000
      [] OTHER -> FALSE

\* The number of events of a cause in a sequence of events.
CountCause(events, cause) ==
    Cardinality({i \in 1..Len(events) : events[i].cause = cause})

\* C7: at a stress check, for each stress condition that holds exactly one
\* event with day = days_alive is appended if and only if no event of the same
\* cause with day >= days_alive - 5 is recorded anywhere in the list, and none
\* otherwise; NutrientBurn events are Severe, the others Moderate; so events of
\* one cause are never less than 6 days apart.
C7_StressDedup ==
    /\ [](\A i, j \in 1..Len(StressEvents) :
              (i < j /\ StressEvents[i].cause = StressEvents[j].cause)
                  => StressEvents[j].day >= StressEvents[i].day + 6)
    /\ [][LET old == current_plant[1].care_history.stress_events
              new == current_plant'[1].care_history.stress_events
              day == current_plant'[1].days_alive
              water == current_plant'[1].water_level
              nutrients == current_plant'[1].nutrient_level
          IN  /\ Len(new) >= Len(old)
              /\ SubSeq(new, 1, Len(old)) = old
              /\ \A k \in (Len(old) + 1)..Len(new) :
                     /\ new[k].day = day
                     /\ new[k].severity =
                            IF new[k].cause = "NutrientBurn"
                            THEN "Severe" ELSE "Moderate"
              /\ \A cause \in StressCauseSet :
                     LET recorded ==
                             \E i \in 1..Len(old) :
                                 /\ old[i].cause = cause
                                 /\ old[i].day >= day - 5
                     IN  CountCause(new, cause) - CountCause(old, cause) =
                             IF StressHolds(cause, water, nutrients) /\ ~recorded
                             THEN 1 ELSE 0]_vars

\* A low-water condition held at days 1, 3 and 7: the one at day 3 recorded
\* nothing, the one at day 7 a second event; a nutrient burn was recorded too.
C7_Witness ==
    /\ Plant.days_alive = 7
    /\ Plant.water_level < 2000
    /\ \E i, j, k \in 1..Len(StressEvents) :
           /\ StressEvents[i].cause = "LowWater" /\ StressEvents[i].day = 1
           /\ StressEvents[j].cause = "LowWater" /\ StressEvents[j].day = 7
           /\ StressEvents[k].cause = "NutrientBurn"
           /\ StressEvents[k].severity = "Severe"
    /\ CountCause(StressEvents, "LowWater") = 2

\* The health the specification gives for water and nutrient levels.
HealthOf(water, nutrients) ==
    LET water_in == water >= 4000 /\ water <= 8000
        nutrients_in == nutrients >= 5000 /\ nutrients <= 8000
    IN  IF water < 1000 \/ water > 9500 \/ nutrients < 2000 \/ nutrients > 9500
        THEN "Critical"
        ELSE IF ~water_in /\ ~nutrients_in THEN "Poor"
        ELSE IF water_in # nutrients_in THEN "Fair"
        ELSE IF water >= 5000 /\ water <= 7000
                /\ nutrients >= 6000 /\ nutrients <= 7500 THEN "Excellent"
        ELSE "Good"

\* C8: calculate_health is Critical whenever water < 10 or > 95 or nutrients
\* < 20 or > 95, whatever the other level; otherwise Poor with both levels out
\* of band, Fair with exactly one, Excellent in the inner band, Good elsewhere.
C8_HealthBands ==
    /\ Plant.health = HealthOf(Plant.water_level, Plant.nutrient_level)
    /\ (Plant.water_level < 1000 \/ Plant.water_level > 9500
        \/ Plant.nutrient_level < 2000 \/ Plant.nutrient_level > 9500)
           => Plant.health = "Critical"

\* calculate_health(water = 5, nutrients = 60) = Critical
C8_Witness ==
    /\ Plant.water_level = 500
    /\ Plant.nutrient_level = 6000
    /\ Plant.health = "Critical"

\* careQuality = max(0.7, (waterPct + nutrientPct) / 200) of a care history
CareQualityOf(ch) ==
    LET water_pct ==
            IF ch.total_hours = 0 THEN 10000
            ELSE (ch.total_optimal_water_hours * 10000) \div ch.total_hours
        nutrient_pct ==
            IF ch.total_hours = 0 THEN 10000
            ELSE (ch.total_optimal_nutrient_hours * 10000) \div ch.total_hours
    IN  Max(7000, (water_pct + nutrient_pct) \div 2)

\* stressPenalty = min(0.3, 0.02 * number of stress events)
StressPenaltyOf(ch) == Min(3000, 200 * Len(ch.stress_events))

\* C9: the harvest result of the plant, in every state ticks reach, has weight
\* = yieldPotential * careQuality * (1 - stressPenalty); the optimal-hour
\* counters never exceed the total hours, so careQuality <= 1, 0.49 * yield <=
\* weight <= yield and 49 <= qualityScore <= 100; with yield 100, no stress
\* event and careQuality 1.0 the weight is 100 and the score 100.  Every
\* recorded result has its score in 49..100 too.
C9_HarvestArithmetic ==
    LET ch == Plant.care_history
        yield == Plant.genetics.yield_potential
        result == from_plant(Plant, last_tick)
    IN  /\ ch.total_optimal_water_hours <= ch.total_hours
        /\ ch.total_optimal_nutrient_hours <= ch.total_hours
        /\ CareQualityOf(ch) <= 10000
        /\ result.weight_grams =
               (((yield * CareQualityOf(ch)) \div 10) * (10000 - StressPenaltyOf(ch)))
                   \div 10000
        /\ result.weight_grams >= 490 * yield
        /\ result.weight_grams <= 1000 * yield
        /\ result.quality_score >= 4900
        /\ result.quality_score <= 10000
        /\ (yield = 100 /\ ch.stress_events = <<>> /\ CareQualityOf(ch) = 10000)
               => (result.weight_grams = 100000 /\ result.quality_score = 10000)
        /\ \A i \in 1..Len(harvest_history) :
               /\ harvest_history[i].quality_score >= 4900
               /\ harvest_history[i].quality_score <= 10000
               /\ harvest_history[i].weight_grams >= 490 * 100
               /\ harvest_history[i].weight_grams <= 1000 * 150

\* Two recorded harvests: one of weight 100 and score 100, and one of a grown
\* plant whose care quality was below 1.
C9_Witness ==
    \E i, j \in 1..Len(harvest_history) :
        /\ harvest_history[i].weight_grams = 100000
        /\ harvest_history[i].quality_score = 10000
        /\ harvest_history[j].harvest_day >= 86
        /\ harvest_history[j].quality_score < 10000

\* C10: after every tick, whatever the elapsed time, the levels and the
\* environmental metrics of the plant stay in 0..100 and the temperature in
\* 20..28.
C10_ValuesInRange ==
    /\ Plant.water_level >= 0 /\ Plant.water_level <= 10000
    /\ Plant.nutrient_level >= 0 /\ Plant.nutrient_level <= 10000
    /\ Plant.co2_level >= 0 /\ Plant.co2_level <= 10000
    /\ Plant.light_absorption >= 0 /\ Plant.light_absorption <= 10000
    /\ Plant.humidity >= 0 /\ Plant.humidity <= 10000
    /\ Plant.root_development >= 0 /\ Plant.root_development <= 10000
    /\ Plant.canopy_density >= 0 /\ Plant.canopy_density <= 10000
    /\ Plant.temperature >= 2000 /\ Plant.temperature <= 2800

\* A tick of 2340 hours has drained both levels to 0 and the top-up and the
\* caps have acted.
C10_Witness ==
    /\ Plant.total_hours_elapsed >= 23400
    /\ Plant.water_level = 5000
    /\ Plant.nutrient_level = 4000
    /\ Plant.root_development = 10000

\* C11: a tick that leaves days_alive >= 45 leaves the light cycle at
\* Flower12_12, and a plant whose light cycle is Flower12_12 keeps it at every
\* later step of its life (no tick switches it back to Veg18_6).
C11_FloweringCycleSticks ==
    [][/\ (TimeStep /\ current_plant' # None
             /\ current_plant'[1].days_alive >= 45)
          => current_plant'[1].light_cycle = "Flower12_12"
       /\ (SamePlantStep /\ current_plant[1].light_cycle = "Flower12_12")
          => current_plant'[1].light_cycle = "Flower12_12"]_vars

\* A plant that switched at day 45 and has lived further ticks since, still
\* on the flowering cycle.
C11_Witness ==
    /\ Plant.days_alive >= 47
    /\ Plant.days_alive < 86
    /\ Plant.total_hours_elapsed < 23400
    /\ Plant.light_cycle = "Flower12_12"

----------------------------------------------------------------------------
(* Properties of the structure cache *)

\* Thread t is between the lookup that missed and the end of its insertion.
Filling(t) == callers[t].pc \in {"generate", "draw", "insert", "inserting"}

\* The step is the lookup of thread t.
LookupStep(t) == callers[t].pc = "get" /\ callers'[t].pc # "get"

\* The step is the end of a run of generate.
GenerateStep == Len(generate_log') = Len(generate_log) + 1

\* The step ends the process.
RestartStep == PLANT_CACHE # <<>> /\ PLANT_CACHE' = <<>>

\* What the calls of get_or_generate have returned so far.
Returned ==
    UNION {{callers[t].returned[i] : i \in 1..Len(callers[t].returned)} :
              t \in Threads}

\* C12: under every interleaving of concurrent get_or_generate calls the
\* lookup, the generation and the insertion are one critical section: a seed
\* is generated only while the cache has no entry for it and nobody else is
\* filling it (so at most once in a process), a lookup never sees a partial
\* entry nor misses a seed that another caller is inserting, all callers of a
\* seed receive identical structures, and an entry of the cache is never
\* removed or replaced while the process lives.
C12_CacheCriticalSection ==
    [][/\ GenerateStep =>
              LET seed == generate_log'[Len(generate_log')].seed
              IN  /\ seed \notin DOMAIN PLANT_CACHE
                  /\ Cardinality({t \in Threads :
                         Filling(t) /\ callers[t].seed = seed}) = 1
       /\ \A t \in Threads :
              LookupStep(t) =>
                  /\ callers'[t].structure # PartialEntry
                  /\ \A u \in Threads \ {t} :
                         ~(Filling(u) /\ callers[u].seed = callers[t].seed)
       /\ \A a, b \in Returned' :
              a.seed = b.seed => a.structure = b.structure
       /\ ~RestartStep =>
              \A seed \in DOMAIN PLANT_CACHE :
                  /\ seed \in DOMAIN PLANT_CACHE'
                  /\ PLANT_CACHE[seed] # PartialEntry
                         => PLANT_CACHE'[seed] = PLANT_CACHE[seed]]_vars

\* One thread waits for the guard while the other is half way through the
\* insertion of the seed both ask for, and both have returned from an earlier
\* call.
C12_Witness ==
    \E t, u \in Threads :
        /\ t # u
        /\ callers[t].pc = "lock"
        /\ callers[u].pc = "inserting"
        /\ callers[t].seed = callers[u].seed
        /\ PLANT_CACHE[callers[u].seed] = PartialEntry
        /\ Len(callers[t].returned) > 0
        /\ Len(callers[u].returned) > 0

\* The seed as a number; the seeds of the model are below 2^31.
SeedNumber(seed) ==
    seed[1] + 256 * seed[2] + 65536 * seed[3] + 16777216 * seed[4]

\* Bits 0..15 and bits 16..30 of the generator state after k draws from the
\* seed numbered n, by state := state * 1103515245 + 12345 mod 2^64 carried
\* out on the low 31 bits, which no higher bit reaches
\* (1103515245 = 16838 * 65536 + 20077).
RECURSIVE LcgLowBits(_, _)
LcgLowBits(n, k) ==
    IF k = 0
    THEN <<(n + 1) % 65536, ((n + 1) \div 65536) % 32768>>
    ELSE LET state == LcgLowBits(n, k - 1)
             low == state[1] * 20077 + 12345
         IN  <<low % 65536,
               ((low \div 65536) + state[1] * 16838 + state[2] * 20077)
                   % 32768>>

\* (state / 65536) mod 32768 after k draws.
LcgOutput(n, k) == LcgLowBits(n, k)[2]

\* The outputs drawn from `seed` are those of the recurrence.
OutputsFollowLcg(seed, outputs) ==
    \A k \in 1..Len(outputs) :
        /\ outputs[k] \in 0..32767
        /\ outputs[k] = LcgOutput(SeedNumber(seed), k)

\* C13: generation is a pure function of the seed.  Every generator created
\* from a seed draws the sequence of state := state * 1103515245 + 12345
\* mod 2^64, output (state / 65536) mod 32768, each output in 0..32767; two
\* runs of generate on one seed draw the same outputs and build the same
\* structure (phenotype, branches in order, trunk splits); and what
\* get_or_generate(s) returns equals generate(s), whatever was asked before.
C13_GenerationIsPure ==
    /\ \A t \in Threads :
           OutputsFollowLcg(callers[t].seed, callers[t].outputs)
    /\ \A i \in 1..Len(generate_log) :
           /\ OutputsFollowLcg(generate_log[i].seed, generate_log[i].outputs)
           /\ generate_log[i].structure.seed = generate_log[i].seed
           /\ generate_log[i].structure.phenotype =
                  CASE generate_log[i].outputs[1] % 3 = 0 -> "Tall"
                    [] generate_log[i].outputs[1] % 3 = 1 -> "Bushy"
                    [] OTHER -> "Balanced"
           /\ \A j \in 1..Len(generate_log) :
                  generate_log[i].seed = generate_log[j].seed =>
                      /\ generate_log[i].outputs = generate_log[j].outputs
                      /\ generate_log[i].structure = generate_log[j].structure
    /\ \A r \in Returned : r.structure = StructureOf(r.seed)

\* A seed has been generated twice, in two processes, and a thread has been
\* handed the structures of two different seeds one after the other.
C13_Witness ==
    /\ \E i, j \in 1..Len(generate_log) :
           /\ i < j
           /\ generate_log[i].seed = generate_log[j].seed
           /\ Len(generate_log[j].outputs) = MaxOutputs
    /\ \E t \in Threads :
           /\ Len(callers[t].returned) = 2
           /\ callers[t].returned[1].seed # callers[t].returned[2].seed

----------------------------------------------------------------------------
(* Properties of generate *)

\* The primary branches of a structure.
Primaries(structure) ==
    {i \in 1..Len(structure.branches) : ~structure.branches[i].is_secondary}

WellFormed(structure) ==
    /\ structure.max_height \in 12..24
    /\ Cardinality(Primaries(structure)) \in 15..40
    /\ \A i \in 1..Len(structure.branches) :
           LET branch == structure.branches[i]
           IN  /\ branch.level >= 1
               /\ branch.level < structure.max_height
               /\ branch.thickness \in 1..3
               /\ IF branch.is_secondary
                  THEN /\ branch.max_length \in 4..9
                       /\ branch.parent_index # None
                       /\ branch.parent_index[1] >= 0
                       /\ branch.parent_index[1]
                              < Cardinality(Primaries(structure))
                       /\ branch.parent_index[1] + 1 < i
                       /\ (branch.parent_index[1] + 1)
                              \in Primaries(structure)
                  ELSE /\ branch.max_length \in 6..13
                       /\ branch.parent_index = None
    /\ Len(structure.trunk_splits) <= 2
    /\ \A k \in 1..Len(structure.trunk_splits) :
           /\ structure.trunk_splits[k].split_day \in 20..50
           /\ structure.trunk_splits[k].split_level \in 4..8
           /\ structure.trunk_splits[k].angle \in -2..2

\* C14: every structure generate builds is well formed: max_height in 12..24;
\* every branch with 1 <= level < max_height; every secondary branch with a
\* parent index below the number of primary branches that refers to a primary
\* branch generated before it; primary max_length in 6..13, secondary in
\* 4..9, thickness in 1..3; 15 to 40 primary branches; at most 2 trunk
\* splits, each with split_day in 20..50, split_level in 4..8 and angle in
\* -2..2.
C14_StructureWellFormed ==
    /\ \A i \in 1..Len(generate_log) : WellFormed(generate_log[i].structure)
    /\ \A seed \in DOMAIN PLANT_CACHE :
           PLANT_CACHE[seed] # PartialEntry => WellFormed(PLANT_CACHE[seed])

\* A structure with two trunk splits and secondary branches has been
\* generated, and so has one of another phenotype.
C14_Witness ==
    \E i, j \in 1..Len(generate_log) :
        /\ Len(generate_log[i].structure.trunk_splits) = 2
        /\ \E k \in 1..Len(generate_log[i].structure.branches) :
               generate_log[i].structure.branches[k].is_secondary
        /\ generate_log[j].structure.phenotype
               # generate_log[i].structure.phenotype

----------------------------------------------------------------------------
(* Properties of the renderer *)

\* get_plant_ascii has been called.
Rendered == render_args # <<>>

\* The structure of the plant drawn.
Structure == PLANT_CACHE[render_args.seed]

\* The columns of row y of the painted grid that hold the char ch.
ColumnsOf(y, ch) == {x \in 0..69 : lines[y + 1][x + 1] = ch}

\* C15: for every structure, day, stage, frame and flower glyph the render
\* returns exactly 28 rows of exactly 70 chars and no write falls outside
\* the grid (the painting does not panic); the final truncation and padding
\* leave every painted glyph in its row and column.
C15_GridShape ==
    Rendered =>
        /\ lines # Panic
        /\ plant_ascii # Panic
        /\ Len(plant_ascii) = 28
        /\ \A y \in 1..28 :
               /\ Len(plant_ascii[y]) = 70
               /\ \A x \in 1..70 :
                      lines[y][x] # Blank => plant_ascii[y][x] = lines[y][x]

\* A row holds three bars of three bytes each, so that s.get(..70) cut six
\* chars off its end, and a branch of the plant reaches 13 columns out.
C15_Witness ==
    /\ Rendered
    /\ \E y \in 0..26 : Cardinality(ColumnsOf(y, DoubleBar)) = 3
    /\ \E y \in 0..26 : lines[y + 1][center + 13 + 1] # Blank

\* The branches of the plant drawn that the render draws.
DrawnBranches(day) ==
    {k \in 1..Len(Structure.branches) :
        BranchDrawn(Structure, Structure.branches[k], day)}

\* ceil of the length of a branch, as the render computes it.
LengthInt(branch, day) == (branch_length(branch, day) + 999999) \div 1000000

\* C16: in every rendered grid, whatever the structure, day, stage and frame,
\* row 27 holds the soil glyph '~' in columns 16..53, over whatever trunk,
\* split arm or branch glyph was painted there before.
C16_SoilLine ==
    Rendered =>
        \A x \in 16..53 :
            /\ lines[28][x + 1] = "~"
            /\ plant_ascii[28][x + 1] = "~"

\* The trunk has been painted down to row 27 and a branch that bends down
\* has painted its tip on row 27, both before the soil.
C16_Witness ==
    /\ Rendered
    /\ trunk_height(Structure, render_args.day) >= 1
    /\ \E k \in DrawnBranches(render_args.day) :
           BranchRow(Structure.branches[k], 27 - Structure.branches[k].level,
                     LengthInt(Structure.branches[k], render_args.day)) = 27

\* The step draws the same plant at a later day.
LaterDayStep ==
    /\ Rendered
    /\ render_args'.seed = render_args.seed
    /\ render_args'.day > render_args.day

\* C17: the plant never shrinks as the day increases: from each day to the
\* next, between the day of one draw and the day of the following one, the
\* trunk height does not decrease and stays within max_height, and a branch
\* that is drawn (growth_start_day reached, level within the trunk height,
\* length at least 0.5) is still drawn.
C17_NeverShrinks ==
    [][LaterDayStep =>
          \A d \in render_args.day..(render_args'.day - 1) :
              /\ trunk_height(Structure, d) <= trunk_height(Structure, d + 1)
              /\ trunk_height(Structure, d + 1) <= Structure.max_height
              /\ \A k \in 1..Len(Structure.branches) :
                     /\ branch_length(Structure.branches[k], d)
                            <= branch_length(Structure.branches[k], d + 1)
                     /\ BranchDrawn(Structure, Structure.branches[k], d)
                            => BranchDrawn(Structure, Structure.branches[k],
                                           d + 1)]_vars

\* The plant has been drawn day after day up to day 120, its trunk at
\* max_height; branches were drawn from day 22 on, and some came later.
C17_Witness ==
    /\ Rendered
    /\ render_args.day = 120
    /\ trunk_height(Structure, 120) = Structure.max_height
    /\ trunk_height(Structure, 22) < Structure.max_height
    /\ DrawnBranches(22) # {}
    /\ DrawnBranches(22) # DrawnBranches(120)

\* C20: in every rendered grid every row r with 27 - trunk_height(day) <= r
\* <= 26 holds the trunk glyph of the frame at column 35, for every
\* structure, those with active trunk splits included.
C20_TrunkColumn ==
    Rendered =>
        \A r \in (27 - trunk_height(Structure, render_args.day))..26 :
            /\ lines[r + 1][center + 1]
                   = TrunkChar(render_args.stage, render_args.frame)
            /\ plant_ascii[r + 1][center + 1]
                   = TrunkChar(render_args.stage, render_args.frame)

----------------------------------------------------------------------------
(* Persistence: the save of every pass and the load of main *)

\* A step that is one pass of the loop of run_app.
PassStep == ~exited /\ launches' = launches /\ disk_ok' = disk_ok

\* The App after the step is what update(app, message) returns for one of
\* the messages.
UpdateAlone ==
    \/ \E elapsed_ms \in ElapsedSet \cup {0} : Tick(elapsed_ms)
    \/ Quit
    \/ \E screen \in Screen : SwitchScreen(screen)
    \/ HarvestPlant
    \/ ToggleAutoHarvest
    \/ CycleVisualMode

\* The clock and the harvest counter of the model leave room for a tick.
RoomToTick == last_tick + 648 <= MaxClock /\ total_harvests < MaxHarvests

\* A tick that moves the clock and the plant, or harvests it.
AdvancingTick ==
    /\ PositiveTick
    /\ last_tick' > last_tick
    /\ \/ total_harvests' = total_harvests + 1
       \/ current_plant'[1].total_hours_elapsed
              > current_plant[1].total_hours_elapsed

SavedFields(app) ==
    <<app.current_plant, app.harvest_history, app.total_harvests,
      app.auto_harvest, app.last_tick, app.visual_mode>>

\* `loaded` is `saved` with the UI-only fields reset.
RoundTrip(saved, loaded) ==
    /\ SavedFields(loaded) = SavedFields(saved)
    /\ loaded.running = TRUE
    /\ loaded.animation_frame = 0
    /\ loaded.current_screen = "GrowingRoom"

\* main starts again.
RelaunchStep == exited /\ ~exited'

\* C19: the App that storage::load reads from what storage::save wrote has
\* the current plant, harvest history, total_harvests, auto_harvest,
\* last_tick and visual mode of the App saved, and running = true,
\* animation_frame = 0 and screen = GrowingRoom, whatever the App saved had
\* there: for the save of every pass, and for the App main starts with when
\* save.json holds the last App of the previous run.
C19_SaveLoadRoundTrip ==
    [][/\ (PassStep /\ disk_ok) =>
              \A supports_truecolor \in BOOLEAN, genetics \in GeneticsPool :
                  RoundTrip(App', load(supports_truecolor, save_file',
                                       genetics, last_tick'))
       /\ (RelaunchStep /\ disk_ok /\ save_file = Some(to_string_pretty(App)))
              => RoundTrip(App, App')]_vars

\* A second run of main that has just loaded an App with a harvest on
\* record, auto-harvest on and a visual mode other than the default.
C19_Witness ==
    /\ launches = 2
    /\ ~exited
    /\ disk_ok
    /\ save_file # None
    /\ \E genetics \in GeneticsPool :
           App = load(supports_rgb(color_palette), save_file, genetics,
                      last_tick)
    /\ harvest_history # <<>>
    /\ total_harvests = 1
    /\ auto_harvest
    /\ visual_mode # "Normal"
    /\ last_tick > 0

----------------------------------------------------------------------------
(* Properties of the renderer: trunk splits, first writer, foliage *)

\* The trunk splits eligible at `day`: split_day reached and the row of the
\* split among the rows of the trunk.
EligibleSplits(structure, day) ==
    {k \in 1..Len(structure.trunk_splits) :
        /\ structure.trunk_splits[k].split_day <= day
        /\ structure.trunk_splits[k].split_level
               <= Min(trunk_height(structure, day), 27)}

\* The eligible split the scan of the rows from the top meets first: the one
\* of the highest level, the first of the list among equals.
FirstMetSplit(structure, day) ==
    CHOOSE k \in EligibleSplits(structure, day) :
        \A j \in EligibleSplits(structure, day) :
            \/ structure.trunk_splits[k].split_level
                   > structure.trunk_splits[j].split_level
            \/ /\ structure.trunk_splits[k].split_level
                      = structure.trunk_splits[j].split_level
               /\ k <= j

\* The structure with every trunk split but the k-th removed.
OnlySplit(structure, k) ==
    [structure EXCEPT !.trunk_splits = <<structure.trunk_splits[k]>>]

\* The grid painted for the arguments of the last draw from `structure`.
PaintedFrom(structure) ==
    PaintedLines(render_args.day, structure, render_args.frame,
                 ShowFlowers(render_args.stage),
                 FlowerChar(render_args.stage, render_args.frame),
                 render_args.stage)

\* C21: when several trunk splits are eligible on the day drawn, the grid
\* rendered equals the grid rendered from the same structure with every
\* split removed but the first one the scan of the rows meets.
C21_FirstSplitOnly ==
    (Rendered /\ Cardinality(EligibleSplits(Structure, render_args.day)) >= 2)
        => /\ lines = PaintedFrom(OnlySplit(Structure,
                          FirstMetSplit(Structure, render_args.day)))
           /\ plant_ascii = FormatLines(PaintedFrom(OnlySplit(Structure,
                                FirstMetSplit(Structure, render_args.day))))

\* Every cell of `before` that is not blank holds the same char in `after`.
Preserved(before, after) ==
    /\ before # Panic
    /\ after # Panic
    /\ \A y \in 1..28 :
           \/ before[y] = after[y]
           \/ \A x \in 1..70 :
                  before[y][x] # Blank => after[y][x] = before[y][x]

\* for branch in visible.iter(), over the branches first..last, from the grid
\* state.grid: the grid the passes leave, and whether every pass so far has
\* preserved the painted cells.  Evaluated as two halves.
RECURSIVE PassesPreserve(_, _, _)
PassesPreserve(state, first, last) ==
    IF first > last THEN state
    ELSE IF first = last
    THEN Only({[grid |-> next,
                ok |-> state.ok /\ Preserved(state.grid, next)] :
                  next \in {DrawBranch(state.grid, Structure,
                                       Structure.branches[first],
                                       render_args.day,
                                       ShowFlowers(render_args.stage),
                                       FlowerChar(render_args.stage,
                                                  render_args.frame))}})
    ELSE Only({PassesPreserve(half, ((first + last) \div 2) + 1, last) :
                  half \in {PassesPreserve(state, first,
                                           (first + last) \div 2)}})

\* C22: once the trunk and its split arms are painted, no write of a branch,
\* of its foliage or of its sub-branches changes a cell that is not blank:
\* the trunk and the branches drawn earlier keep their glyphs until the soil
\* line is drawn.
C22_FirstWriterWins ==
    Rendered =>
        \E passes \in {PassesPreserve(
                           [grid |-> PaintedTrunk(render_args.day, Structure,
                                                  render_args.frame,
                                                  render_args.stage),
                            ok |-> TRUE],
                           1, Len(Structure.branches))} :
            /\ passes.ok
            /\ \A y \in 1..27 : lines[y] = passes.grid[y]

\* Two branches of the same level and direction are drawn, so that the later
\* one meets the glyphs of the earlier one, and a branch bifurcates.
C22_Witness ==
    /\ Rendered
    /\ \E k, j \in DrawnBranches(render_args.day) :
           /\ k < j
           /\ Structure.branches[k].level = Structure.branches[j].level
           /\ Structure.branches[k].direction
                  = Structure.branches[j].direction
           /\ LengthInt(Structure.branches[k], render_args.day) >= 3
           /\ LengthInt(Structure.branches[j], render_args.day) >= 3
    /\ \E k \in DrawnBranches(render_args.day) :
           /\ Structure.branches[k].can_bifurcate
           /\ render_args.day >= Structure.branches[k].bifurcation_day
           /\ LengthInt(Structure.branches[k], render_args.day) >= 3

\* The column of the foliage glyph of `offset` next to the tip of a branch.
FoliageColumn(branch, day, offset) ==
    center + (length_int_of(branch, day) - offset) * branch.direction

\* The glyph the foliage of `offset` is painted with.
FoliageGlyph(offset, show_flowers) ==
    IF show_flowers THEN (IF offset = 1 THEN "*" ELSE ".") ELSE ":"

\* `after` is `before` with the foliage of the branch painted: where `due`
\* holds, each blank cell of the row above the branch at a foliage column left
\* of column 34 takes its glyph; every other cell is as before.
FoliagePainted(before, after, branch, day, show_flowers, due) ==
    /\ before # Panic
    /\ after # Panic
    /\ \A y \in 1..28 :
           IF due /\ y - 1 = 27 - branch.level - 1
           THEN \A x \in 1..70 :
                    IF /\ before[y][x] = Blank
                       /\ x - 1 < 34
                       /\ \E offset \in 1..2 :
                              x - 1 = FoliageColumn(branch, day, offset)
                    THEN \E offset \in 1..2 :
                             /\ x - 1 = FoliageColumn(branch, day, offset)
                             /\ after[y][x]
                                    = FoliageGlyph(offset, show_flowers)
                    ELSE after[y][x] = before[y][x]
           ELSE after[y] = before[y]

\* The foliage is due as the claim has it: the branch is at least 3 long and
\* the current foliage density exceeds 0.5.
FoliageDueClaimed(structure, branch, day) ==
    /\ length_int_of(branch, day) >= 3
    /\ current_foliage_density(structure, day) > 450

\* The foliage is due as the program has it: moreover the density exceeds 0.6
\* and the row above the branch is one of the rows 0..13.
FoliageDue(structure, branch, day) ==
    /\ length_int_of(branch, day) >= 3
    /\ current_foliage_density(structure, day) > 540
    /\ 27 - branch.level - 1 < 14

\* One pass of the loop over the branches, from state.grid: the grid it
\* leaves, whether the foliage of every pass so far was painted as the claim
\* has it, whether as the program has it, and whether any pass painted some.
FoliagePass(state, branch) ==
    IF ~BranchDrawn(Structure, branch, render_args.day)
    THEN state
    ELSE Only({Only({[grid |-> DrawSubBranches(
                                  after, branch, render_args.day,
                                  ShowFlowers(render_args.stage),
                                  FlowerChar(render_args.stage,
                                             render_args.frame)),
                      claimed |->
                          /\ state.claimed
                          /\ FoliagePainted(
                                 before, after, branch, render_args.day,
                                 ShowFlowers(render_args.stage),
                                 FoliageDueClaimed(Structure, branch,
                                                   render_args.day)),
                      amended |->
                          /\ state.amended
                          /\ FoliagePainted(
                                 before, after, branch, render_args.day,
                                 ShowFlowers(render_args.stage),
                                 FoliageDue(Structure, branch,
                                            render_args.day)),
                      painted |-> state.painted \/ after # before] :
                        after \in {DrawFoliage(
                                      before, Structure, branch,
                                      render_args.day,
                                      ShowFlowers(render_args.stage))}}) :
                  before \in {DrawBranchSteps(
                                 state.grid, Structure, branch,
                                 render_args.day,
                                 ShowFlowers(render_args.stage),
                                 FlowerChar(render_args.stage,
                                            render_args.frame))}})

\* The passes first..last of the loop over the branches, as two halves.
RECURSIVE FoliagePasses(_, _, _)
FoliagePasses(state, first, last) ==
    IF first > last THEN state
    ELSE IF first = last
    THEN FoliagePass(state, Structure.branches[first])
    ELSE Only({FoliagePasses(half, ((first + last) \div 2) + 1, last) :
                  half \in {FoliagePasses(state, first,
                                          (first + last) \div 2)}})

\* The passes of the last draw, from the grid the trunk loop left.
FoliageOfDraw ==
    FoliagePasses([grid |-> PaintedTrunk(render_args.day, Structure,
                                         render_args.frame,
                                         render_args.stage),
                   claimed |-> TRUE, amended |-> TRUE, painted |-> FALSE],
                  1, Len(Structure.branches))

\* C23 as stated: for a drawn branch of length at least 3 whose current
\* foliage density exceeds 0.5, the foliage writes paint a glyph in each blank
\* cell of the row above the branch at the positions next to its tip left of
\* column 34, and change no other cell.
C23_FoliageAsClaimed ==
    Rendered =>
        \E passes \in {FoliageOfDraw} :
            /\ passes.claimed
            /\ \A y \in 1..27 : lines[y] = passes.grid[y]

\* C23, amended: the foliage writes paint those cells only when moreover the
\* current foliage density exceeds 0.6 and the row above the branch is one
\* of the rows 0..13; then every such blank cell takes its glyph.  They
\* change no other cell: none at column 34 or beyond, none for a shorter
\* branch, a lower density or a lower row.
C23_FoliageLeftHalf ==
    Rendered =>
        \E passes \in {FoliageOfDraw} :
            /\ passes.amended
            /\ \A y \in 1..27 : lines[y] = passes.grid[y]

\* A draw in which the foliage of some branch was painted, and in which a
\* drawn branch of length 3 or more points right, its foliage columns beyond
\* column 34.
C23_Witness ==
    /\ Rendered
    /\ FoliageOfDraw.painted
    /\ \E k \in DrawnBranches(render_args.day) :
           /\ Structure.branches[k].direction = 1
           /\ length_int_of(Structure.branches[k], render_args.day) >= 3
           /\ FoliageDue(Structure, Structure.branches[k], render_args.day)

----------------------------------------------------------------------------
(* Properties of the keys and the messages *)

\* C24: pressing 'h' while the plant is not ready, like pressing a key that
\* has no message of its own, leaves the whole application state unchanged:
\* the plant, the history, the counters and the animation frame.
C24_UnreadyKeyIsNoOp ==
    [][((KeyHarvest /\ ~HarvestKeyReady) \/ KeyOther)
          => UNCHANGED <<current_plant, harvest_history, total_harvests,
                         last_tick, animation_frame, auto_harvest,
                         visual_mode, current_screen, running,
                         color_palette>>]_vars

\* C25: whenever the palette in use does not support RGB the visual mode is
\* Normal, in every state reached from App::new or from storage::load by any
\* messages; and four CycleVisualMode in a row bring a truecolor terminal
\* back to the mode it started from.
C25_Basic16IsNormal ==
    /\ ~supports_rgb(color_palette) => visual_mode = "Normal"
    /\ \A m \in VisualMode :
           visual_mode_next(visual_mode_next(
               visual_mode_next(visual_mode_next(m)))) = m

\* The step leaves the simulation state as it was.
SimulationUnchanged ==
    UNCHANGED <<current_plant, harvest_history, total_harvests, last_tick,
                animation_frame>>

\* How many of the fields of the other messages the step changes: running,
\* current_screen, auto_harvest, and visual_mode with its palette.
OwnFieldsChanged ==
    Cardinality({f \in 1..4 :
        <<running' # running,
          current_screen' # current_screen,
          auto_harvest' # auto_harvest,
          visual_mode' # visual_mode \/ color_palette' # color_palette>>[f]})

\* C26: only a Tick with positive elapsed time or a HarvestPlant changes the
\* simulation state.  A step that changes current_plant, harvest_history,
\* total_harvests, last_tick or animation_frame is one in which the clock
\* advanced or a harvest was recorded, and it changes no other field; Quit,
\* SwitchScreen, ToggleAutoHarvest, CycleVisualMode and a Tick with no
\* elapsed time leave the simulation state alone, each changing at most its
\* own field.
C26_OnlyTickAndHarvest ==
    [][/\ ~SimulationUnchanged
            => /\ \/ last_tick' > last_tick
                  \/ Len(harvest_history') = Len(harvest_history) + 1
               /\ OwnFieldsChanged = 0
       /\ OwnFieldsChanged <= 1
       /\ (Quit \/ ToggleAutoHarvest \/ CycleVisualMode \/ Tick(0)
              \/ \E screen \in Screen : SwitchScreen(screen))
            => SimulationUnchanged
       /\ Quit => OwnFieldsChanged = 1 /\ ~running'
       /\ ToggleAutoHarvest
            => OwnFieldsChanged = 1 /\ auto_harvest' # auto_harvest
       /\ Tick(0) => OwnFieldsChanged = 0]_vars

\* Every message has acted: the frame has advanced, a plant was harvested,
\* the screen, the auto-harvest flag and the visual mode were changed, and
\* the application was told to quit.
C26_Witness ==
    /\ ~running
    /\ animation_frame > 0
    /\ total_harvests > 0
    /\ current_screen = "Stats"
    /\ auto_harvest
    /\ visual_mode = "Zen"

----------------------------------------------------------------------------
(* Termination of get_or_generate *)

\* Thread t is inside get_or_generate.
InCall(t) == callers[t].pc # "idle"

\* C27: every call of get_or_generate terminates and releases the lock, on
\* the hit path and on the miss path.  The guard is held by a thread inside
\* the call only; whenever some thread is inside the call some thread can
\* take a step (no deadlock); and under fair scheduling a thread inside its
\* n-th call comes out of it with a structure returned and the guard
\* released.
C27_CallsTerminate ==
    /\ [](\A t \in Threads :
              lock_owner = t =>
                  callers[t].pc \in {"get", "generate", "draw", "insert",
                                     "inserting", "return"})
    /\ []((\E t \in Threads : InCall(t))
              => \E t \in Threads : ENABLED CallStep(t))
    /\ \A t \in Threads : \A n \in 0..(MaxCalls - 1) :
           (InCall(t) /\ Len(callers[t].returned) = n)
               ~> /\ ~InCall(t)
                  /\ Len(callers[t].returned) = n + 1
                  /\ callers[t].returned[n + 1].structure # <<>>
                  /\ lock_owner # t

\* Both threads have come out of a call for one seed, one by the miss path
\* (a single run of generate is on record) and one by the hit path, and now
\* one waits in lock() while the other holds the guard.
C27_Witness ==
    \E t, u \in Threads :
        /\ t # u
        /\ Len(callers[t].returned) = 1
        /\ Len(callers[u].returned) = 1
        /\ callers[t].returned[1].seed = callers[u].returned[1].seed
        /\ Len(generate_log) = 1
        /\ callers[t].pc = "lock"
        /\ lock_owner = u

----------------------------------------------------------------------------
(* Properties of the auto-care *)

\* The band the auto-care keeps a level in: 40 to 90.
InCareBand(level) == level >= 4000 /\ level <= 9000

\* Hours a single tick can cover, in tenths: 0.1 h, 23.4 h, 80 h, 100 h,
\* 125 h, 2340 h.
CareHours == {1, 234, 800, 1000, 1250, 23400}

\* Levels of the band, 2.5 apart.
CareLevels == {4000 + 250 * i : i \in 0..20}

\* One tick from any levels of the band, in any stage and over any of the
\* hours, leaves both levels in the band.
CareBandKept ==
    \A water \in CareLevels : \A nutrients \in CareLevels :
        \A stage \in GrowthStage : \A hours_elapsed \in CareHours :
            \A plant \in {AutoCare(DrainResources(
                              [water_level |-> water,
                               nutrient_level |-> nutrients,
                               stage |-> stage], hours_elapsed))} :
                /\ InCareBand(plant.water_level)
                /\ InCareBand(plant.nutrient_level)

\* The stress penalty of HarvestResult::from_plant.
stress_penalty_of(plant) ==
    Min(Len(plant.care_history.stress_events) * 200, 3000)

\* C28: a plant created by planting and changed only by ticks has, after
\* every tick, water and nutrients within 40..90, a health other than
\* Critical, none of the four stress conditions, and no stress event on
\* record; and the stress penalty of every harvest is 0.
C28_AutoCareKeepsBand ==
    /\ [](/\ CareBandKept
          /\ current_plant # None =>
                 /\ InCareBand(Plant.water_level)
                 /\ InCareBand(Plant.nutrient_level)
                 /\ Plant.health # "Critical"
                 /\ calculate_health(Plant.water_level, Plant.nutrient_level)
                        # "Critical"
                 /\ \A cause \in StressCauseSet :
                        ~StressHolds(cause, Plant.water_level,
                                     Plant.nutrient_level)
                 /\ Plant.care_history.stress_events = <<>>)
    /\ [][HarvestStep => stress_penalty_of(OutgoingPlant) = 0]_vars

\* After a harvest, the plant that followed has been through ticks and its
\* water has been topped up (it stands above the 60 it was planted with).
C28_Witness ==
    /\ harvest_history # <<>>
    /\ current_plant # None
    /\ Plant.total_hours_elapsed > 0
    /\ Plant.water_level > 6000
    /\ Plant.care_history.stress_events = <<>>

----------------------------------------------------------------------------
(* Properties of the harvests recorded *)

\* C29: every HarvestResult recorded comes from a plant in the harvest band:
\* a harvest by the 'h' key (the clock does not move) has harvest_day >= 86,
\* an automatic harvest (inside a tick) has harvest_day >= 96.
C29_HarvestInBand ==
    [][Len(harvest_history') = Len(harvest_history) + 1 =>
           LET recorded == harvest_history'[Len(harvest_history')]
           IN  IF last_tick' = last_tick
               THEN recorded.harvest_day >= 86
               ELSE recorded.harvest_day >= 96]_vars

----------------------------------------------------------------------------
(* Properties of the dedup scan *)

\* The test of has_recent_stress over the whole list of events.
RecentInWholeList(events, cause, current_day) ==
    \E i \in 1..Len(events) :
        /\ events[i].cause = cause
        /\ events[i].day >= saturating_sub(current_day, 5)

\* C30: on every list of events built by successive stress checks with
\* non-decreasing days, has_recent_stress(cause, day), which scans the last 10
\* events, gives the answer of the same test over the whole list, for every
\* cause and every day from the day of the last check on.
C30_ScanOfTenIsEnough ==
    \A cause \in StressCauseSet :
        \A current_day \in Plant.days_alive..(Plant.days_alive + 6) :
            has_recent_stress(Plant.care_history, cause, current_day)
                <=> RecentInWholeList(StressEvents, cause, current_day)

\* More than 10 events are on record, so the scan leaves the oldest out, and
\* the oldest is more than 5 days old: the whole list and the last 10 differ
\* and the two tests look at different events.
C30_Witness ==
    /\ Len(StressEvents) > 10
    /\ StressEvents[1].day < Plant.days_alive - 5
    /\ \E i \in (Len(StressEvents) - 9)..Len(StressEvents) :
           /\ StressEvents[i].cause = StressEvents[1].cause
           /\ StressEvents[i].day >= Plant.days_alive - 5

====
